---- MODULE Spec2Model ----
(***************************************************************************)
(* Bearound React Native SDK: the permission helpers (permissions.ts) and  *)
(* the configure entry point (index.tsx) as state machines.                *)
(*                                                                         *)
(* Permission helpers: every async function is an activation record with a *)
(* program counter; one step runs the code between two awaits.  The OS     *)
(* (PermissionsAndroid, Linking) is the environment: it answers each call  *)
(* with one of its results or rejects it.                                  *)
(***************************************************************************)
EXTENDS Integers, Sequences, FiniteSets, TLC

\* Highest Android API level explored; the levels start at 28, below every
\* threshold the code tests (29, 31, 33).
MaxSdk == 33

SdkLevels == 28..MaxSdk

VARIABLES
    PlatformOS,       \* Platform.OS
    PlatformVersion,  \* Platform.Version
    granted,          \* the OS permission state: permission -> BOOLEAN
    chk,              \* activation of checkPermissions
    rfg,              \* activation of requestForegroundPermissions
    rbg,              \* activation of requestBackgroundLocation
    ens,              \* activation of ensurePermissions
    pending,          \* the OS dialog call that has been issued and not answered
    log,              \* the OS calls issued by the current top-level call
    result,           \* how the current top-level call ended
    before,           \* how the top-level call immediately before it ended
    sdk,              \* the current call of an index.tsx function
    nativeCalls,      \* the Native.* calls that call has issued
    nativeSettled,    \* how the promise of the Native.* call settled
    parseCall,        \* a call of one of the parsing helpers of index.tsx
    parseRet,         \* what that call returned
    event,            \* the event the native emitter is dispatching
    delivered,        \* the calls of the application's listener it caused
    native,           \* the native SDK and the bridge call that last ran on it
    ios,              \* the iOS bridge's permission request and its completions
    emitted           \* the event a native bridge emitted last

permVars == <<PlatformOS, PlatformVersion, granted, chk, rfg, rbg, ens,
              pending, log, result, before>>
sdkVars == <<sdk, nativeCalls, nativeSettled>>
evtVars == <<parseCall, parseRet, event, delivered>>
bridgeVars == <<native, ios, emitted>>
vars == <<PlatformOS, PlatformVersion, granted, chk, rfg, rbg, ens,
          pending, log, result, before, sdk, nativeCalls, nativeSettled,
          parseCall, parseRet, event, delivered, native, ios, emitted>>

(***************************************************************************)
(* PermissionsAndroid and Linking                                          *)
(***************************************************************************)
ACCESS_FINE_LOCATION == "ACCESS_FINE_LOCATION"
ACCESS_COARSE_LOCATION == "ACCESS_COARSE_LOCATION"
ACCESS_BACKGROUND_LOCATION == "ACCESS_BACKGROUND_LOCATION"
BLUETOOTH_SCAN == "BLUETOOTH_SCAN"
BLUETOOTH_CONNECT == "BLUETOOTH_CONNECT"
POST_NOTIFICATIONS == "POST_NOTIFICATIONS"

PERMISSIONS == {ACCESS_FINE_LOCATION, ACCESS_COARSE_LOCATION,
                ACCESS_BACKGROUND_LOCATION, BLUETOOTH_SCAN,
                BLUETOOTH_CONNECT, POST_NOTIFICATIONS}

GRANTED == "granted"
DENIED == "denied"
NEVER_ASK_AGAIN == "never_ask_again"

RESULTS == {GRANTED, DENIED, NEVER_ASK_AGAIN}

\* The API level that introduced the permission: below it the OS has no
\* such permission to grant.
Introduced(p) ==
    CASE p \in {ACCESS_FINE_LOCATION, ACCESS_COARSE_LOCATION} -> 1
      [] p = ACCESS_BACKGROUND_LOCATION -> 29
      [] p \in {BLUETOOTH_SCAN, BLUETOOTH_CONNECT} -> 31
      [] p = POST_NOTIFICATIONS -> 33

\* What the OS does to a call besides answering it: the promise rejects.
REJECTED == "rejected"

\* The OS state after a request was answered: a grant is recorded, any other
\* answer leaves the state as it was.
OsAfterRequest(g, p, answer) ==
    IF answer = GRANTED THEN [g EXCEPT ![p] = TRUE] ELSE g

(***************************************************************************)
(* permissions.ts: module constants and PermissionResult                   *)
(***************************************************************************)
\* isAndroid with the platform test lost: true on every platform.
isAndroid_EveryPlatform == TRUE

isAndroid == PlatformOS = "android"

SDK_INT == IF isAndroid THEN PlatformVersion ELSE 0

PermissionResult ==
    [fineLocation : BOOLEAN, btScan : BOOLEAN, btConnect : BOOLEAN,
     notifications : BOOLEAN, backgroundLocation : BOOLEAN]

Fields == {"fineLocation", "btScan", "btConnect", "notifications",
           "backgroundLocation"}

AllTrue ==
    [fineLocation |-> TRUE, btScan |-> TRUE, btConnect |-> TRUE,
     notifications |-> TRUE, backgroundLocation |-> TRUE]

\* The value of a slot that holds no PermissionResult (yet).
NoPermissions ==
    [fineLocation |-> FALSE, btScan |-> FALSE, btConnect |-> FALSE,
     notifications |-> FALSE, backgroundLocation |-> FALSE]

(***************************************************************************)
(* Activation records                                                      *)
(***************************************************************************)
ChkIdle ==
    [pc |-> "idle", caller |-> "none", hasFine |-> FALSE, hasCoarse |-> FALSE,
     btScan |-> FALSE, btConnect |-> FALSE, notifications |-> FALSE,
     backgroundLocation |-> FALSE]

RfgIdle ==
    [pc |-> "idle", caller |-> "none", fineGranted |-> FALSE,
     coarseGranted |-> FALSE, btScan |-> FALSE, btConnect |-> FALSE,
     notifications |-> FALSE, current |-> NoPermissions]

RbgIdle ==
    [pc |-> "idle", caller |-> "none", fg |-> NoPermissions, res |-> "none"]

EnsIdle == [pc |-> "idle", arg |-> "none", opts |-> "none"]

NoCall == [call |-> "none", perm |-> "none", fn |-> "none"]

\* How a top-level call ended: the PermissionResult (perms) or the boolean
\* (flag) it resolved with, and the locals the function held as it returned.
NoResult ==
    [op |-> "none", status |-> "none", perms |-> NoPermissions, flag |-> FALSE,
     rfg |-> RfgIdle, rbg |-> RbgIdle]

Running(op) ==
    [op |-> op, status |-> "running", perms |-> NoPermissions, flag |-> FALSE,
     rfg |-> RfgIdle, rbg |-> RbgIdle]


\* A string is the sequence of its characters.
NoConfig ==
    [businessToken |-> [type |-> "undefined", str |-> <<>>],
     foregroundScanInterval |-> [given |-> FALSE, v |-> 0],
     backgroundScanInterval |-> [given |-> FALSE, v |-> 0],
     maxQueuedPayloads |-> [given |-> FALSE, v |-> 0],
     enableBluetoothScanning |-> [given |-> FALSE, v |-> FALSE],
     enablePeriodicScanning |-> [given |-> FALSE, v |-> FALSE]]

NoSdkCall ==
    [op |-> "none", config |-> NoConfig, status |-> "none", error |-> "none"]

\* The promise of a Native.* call: pending, resolved, or rejected with an
\* error.
NotSettled == [status |-> "pending", error |-> "none"]

(***************************************************************************)
(* Promise rejection.  No function of permissions.ts has a try/catch, so a *)
(* rejected await rejects the awaiting function, and so on up to the       *)
(* top-level call.                                                         *)
(***************************************************************************)
Throw ==
    /\ chk' = ChkIdle
    /\ rfg' = RfgIdle
    /\ rbg' = RbgIdle
    /\ ens' = [ens EXCEPT !.pc = "idle"]
    /\ pending' = NoCall
    /\ result' = [result EXCEPT !.status = "rejected"]

LogEntry(call, perm, fn) == [call |-> call, perm |-> perm, fn |-> fn]

(***************************************************************************)
(* checkPermissions                                                        *)
(***************************************************************************)
\* has: (await PermissionsAndroid.check(p)) === true
has(answer) == answer = TRUE

\* has going through PermissionsAndroid.request.
HasCall_Request == "request"

\* The method of PermissionsAndroid that has calls.
HasCall == "check"

ChkSteps == <<"hasFine", "hasCoarse", "btScan", "btConnect", "notifications",
              "backgroundLocation">>

ChkPerm(step) ==
    CASE step = "hasFine" -> ACCESS_FINE_LOCATION
      [] step = "hasCoarse" -> ACCESS_COARSE_LOCATION
      [] step = "btScan" -> BLUETOOTH_SCAN
      [] step = "btConnect" -> BLUETOOTH_CONNECT
      [] step = "notifications" -> POST_NOTIFICATIONS
      [] step = "backgroundLocation" -> ACCESS_BACKGROUND_LOCATION

\* ChkMinSdk without the SDK_INT tests: every permission is looked up.
ChkMinSdk_Always(step) == SDK_INT

\* The SDK_INT from which the step's permission is looked up; below it the
\* local is true and the OS is not asked.
ChkMinSdk(step) ==
    CASE step \in {"hasFine", "hasCoarse"} -> 0
      [] step \in {"btScan", "btConnect"} -> 31
      [] step = "notifications" -> 33
      [] step = "backgroundLocation" -> 29

ChkNext(step) ==
    CASE step = "hasFine" -> "hasCoarse"
      [] step = "hasCoarse" -> "btScan"
      [] step = "btScan" -> "btConnect"
      [] step = "btConnect" -> "notifications"
      [] step = "notifications" -> "backgroundLocation"
      [] step = "backgroundLocation" -> "return"

ChkStore(step, v) == [chk EXCEPT ![step] = v, !.pc = ChkNext(step)]

fineOrCoarse(hasFine, hasCoarse) == hasFine \/ hasCoarse

\* The object checkPermissions returns on Android.
ChkValue ==
    [fineLocation |-> fineOrCoarse(chk.hasFine, chk.hasCoarse),
     btScan |-> chk.btScan,
     btConnect |-> chk.btConnect,
     notifications |-> chk.notifications,
     backgroundLocation |-> chk.backgroundLocation]

\* checkPermissions resolves with v: the awaiting caller goes on.
ChkDeliver(v) ==
    /\ chk' = ChkIdle
    /\ rfg' = IF chk.caller = "rfg"
              THEN [rfg EXCEPT !.current = v,
                               !.pc = IF rfg.pc = "awaitCheckIos"
                                      THEN "returnCheck" ELSE "merge"]
              ELSE rfg
    /\ rbg' = IF chk.caller = "rbg"
              THEN [rbg EXCEPT !.fg = v, !.pc = "gate"]
              ELSE rbg
    /\ ens' = IF chk.caller = "ens" THEN [ens EXCEPT !.pc = "idle"] ELSE ens
    /\ result' = IF chk.caller \in {"top", "ens"}
                 THEN [result EXCEPT !.status = "returned", !.perms = v]
                 ELSE result

\* if (!isAndroid) return {all true}
ChkStart ==
    /\ chk.pc = "start"
    /\ IF ~isAndroid
       THEN ChkDeliver(AllTrue)
       ELSE /\ chk' = [chk EXCEPT !.pc = "hasFine"]
            /\ UNCHANGED <<rfg, rbg, ens, result>>
    /\ UNCHANGED <<bridgeVars, sdkVars, evtVars, PlatformOS, PlatformVersion, granted, pending, log, before>>

\* SDK_INT >= n ? await has(p) : true, the OS answering the check
ChkHasResolves ==
    /\ \E i \in 1..Len(ChkSteps) :
        LET step == ChkSteps[i] IN
        /\ chk.pc = step
        /\ SDK_INT >= ChkMinSdk(step)
        /\ chk' = ChkStore(step, has(granted[ChkPerm(step)]))
        /\ log' = Append(log, LogEntry(HasCall, ChkPerm(step), chk.caller))
    /\ UNCHANGED <<bridgeVars, sdkVars, evtVars, PlatformOS, PlatformVersion, granted, rfg, rbg, ens,
                   pending, result, before>>

\* the same await, PermissionsAndroid.check rejecting
ChkHasRejects ==
    /\ \E i \in 1..Len(ChkSteps) :
        LET step == ChkSteps[i] IN
        /\ chk.pc = step
        /\ SDK_INT >= ChkMinSdk(step)
        /\ log' = Append(log, LogEntry(HasCall, ChkPerm(step), chk.caller))
    /\ Throw
    /\ UNCHANGED <<bridgeVars, sdkVars, evtVars, PlatformOS, PlatformVersion, granted, before>>

\* SDK_INT >= n ? ... : true, below the level
ChkSkip ==
    /\ \E i \in 1..Len(ChkSteps) :
        LET step == ChkSteps[i] IN
        /\ chk.pc = step
        /\ SDK_INT < ChkMinSdk(step)
        /\ chk' = ChkStore(step, TRUE)
    /\ UNCHANGED <<bridgeVars, sdkVars, evtVars, PlatformOS, PlatformVersion, granted, rfg, rbg, ens,
                   pending, log, result, before>>

ChkReturn ==
    /\ chk.pc = "return"
    /\ ChkDeliver(ChkValue)
    /\ UNCHANGED <<bridgeVars, sdkVars, evtVars, PlatformOS, PlatformVersion, granted, pending, log, before>>

checkPermissions == ChkStart \/ ChkHasResolves \/ ChkHasRejects \/ ChkSkip \/ ChkReturn


(***************************************************************************)
(* requestForegroundPermissions                                            *)
(***************************************************************************)
\* req: res === PermissionsAndroid.RESULTS.GRANTED
req(res) == res = GRANTED

\* The request steps in program order, each named after the local it sets.
RfgSteps == <<"fineGranted", "coarseGranted", "btScan", "btConnect",
              "notifications">>

RfgPerm(step) ==
    CASE step = "fineGranted" -> ACCESS_FINE_LOCATION
      [] step = "coarseGranted" -> ACCESS_COARSE_LOCATION
      [] step = "btScan" -> BLUETOOTH_SCAN
      [] step = "btConnect" -> BLUETOOTH_CONNECT
      [] step = "notifications" -> POST_NOTIFICATIONS

\* RfgAsks without the if (!fineGranted): coarse location is always requested.
RfgAsks_CoarseAlways(step) ==
    CASE step \in {"fineGranted", "coarseGranted"} -> TRUE
      [] step \in {"btScan", "btConnect"} -> SDK_INT >= 31
      [] step = "notifications" -> SDK_INT >= 33

\* Whether the step issues its request: the if (!fineGranted) around the
\* coarse request, the SDK_INT >= n ? ... : true of the others.
RfgAsks(step) ==
    CASE step = "fineGranted" -> TRUE
      [] step = "coarseGranted" -> ~rfg.fineGranted
      [] step \in {"btScan", "btConnect"} -> SDK_INT >= 31
      [] step = "notifications" -> SDK_INT >= 33

\* RfgElse with false for every request that is not issued.
RfgElse_False(step) == FALSE

\* The local's value when the request is not issued.
RfgElse(step) == IF step = "coarseGranted" THEN FALSE ELSE TRUE

RfgNext(step) ==
    CASE step = "fineGranted" -> "coarseGranted"
      [] step = "coarseGranted" -> "btScan"
      [] step = "btScan" -> "btConnect"
      [] step = "btConnect" -> "notifications"
      [] step = "notifications" -> "current"

\* RfgValue without the merge: the answers to the requests override current.
RfgValue_RequestsOnly ==
    [fineLocation |-> rfg.fineGranted \/ rfg.coarseGranted,
     btScan |-> rfg.btScan,
     btConnect |-> rfg.btConnect,
     notifications |-> rfg.notifications,
     backgroundLocation |-> rfg.current.backgroundLocation]

\* The object requestForegroundPermissions returns on Android.
RfgValue ==
    [fineLocation |->
         rfg.current.fineLocation \/ rfg.fineGranted \/ rfg.coarseGranted,
     btScan |-> rfg.current.btScan \/ rfg.btScan,
     btConnect |-> rfg.current.btConnect \/ rfg.btConnect,
     notifications |-> rfg.current.notifications \/ rfg.notifications,
     backgroundLocation |-> rfg.current.backgroundLocation]

\* requestForegroundPermissions resolves with v.
RfgDeliver(v) ==
    /\ rfg' = RfgIdle
    /\ ens' = IF rfg.caller = "ens" THEN [ens EXCEPT !.pc = "afterFg"] ELSE ens
    /\ result' = IF rfg.caller = "top"
                 THEN [result EXCEPT !.status = "returned", !.perms = v,
                                     !.rfg = rfg]
                 ELSE result

\* if (!isAndroid) return checkPermissions();
RfgStart ==
    /\ rfg.pc = "start"
    /\ IF ~isAndroid
       THEN /\ rfg' = [rfg EXCEPT !.pc = "awaitCheckIos"]
            /\ chk' = [ChkIdle EXCEPT !.pc = "start", !.caller = "rfg"]
            /\ log' = Append(log, LogEntry("invoke", "checkPermissions", "rfg"))
       ELSE /\ rfg' = [rfg EXCEPT !.pc = "fineGranted"]
            /\ UNCHANGED <<chk, log>>
    /\ UNCHANGED <<bridgeVars, sdkVars, evtVars, PlatformOS, PlatformVersion, granted, rbg, ens, pending,
                   result, before>>

\* await PermissionsAndroid.request(p, ...): the dialog is put up
RfgRequest ==
    /\ \E i \in 1..Len(RfgSteps) :
        LET step == RfgSteps[i] IN
        /\ rfg.pc = step
        /\ pending = NoCall
        /\ RfgAsks(step)
        /\ pending' = LogEntry("request", RfgPerm(step), "rfg")
        /\ log' = Append(log, LogEntry("request", RfgPerm(step), "rfg"))
    /\ UNCHANGED <<bridgeVars, sdkVars, evtVars, PlatformOS, PlatformVersion, granted, chk, rfg, rbg, ens,
                   result, before>>

\* the user answers the dialog
RfgAnswered ==
    /\ \E i \in 1..Len(RfgSteps), answer \in RESULTS :
        LET step == RfgSteps[i] IN
        /\ rfg.pc = step
        /\ pending = LogEntry("request", RfgPerm(step), "rfg")
        /\ granted' = OsAfterRequest(granted, RfgPerm(step), answer)
        /\ rfg' = [rfg EXCEPT ![step] = req(answer), !.pc = RfgNext(step)]
    /\ pending' = NoCall
    /\ UNCHANGED <<bridgeVars, sdkVars, evtVars, PlatformOS, PlatformVersion, chk, rbg, ens, log, result,
                   before>>

\* PermissionsAndroid.request rejects
RfgRejected ==
    /\ pending.call = "request"
    /\ pending.fn = "rfg"
    /\ Throw
    /\ UNCHANGED <<bridgeVars, sdkVars, evtVars, PlatformOS, PlatformVersion, granted, log, before>>

\* the request is not issued
RfgSkip ==
    /\ \E i \in 1..Len(RfgSteps) :
        LET step == RfgSteps[i] IN
        /\ rfg.pc = step
        /\ ~RfgAsks(step)
        /\ rfg' = [rfg EXCEPT ![step] = RfgElse(step), !.pc = RfgNext(step)]
    /\ UNCHANGED <<bridgeVars, sdkVars, evtVars, PlatformOS, PlatformVersion, granted, chk, rbg, ens,
                   pending, log, result, before>>

\* const current = await checkPermissions();
RfgCurrent ==
    /\ rfg.pc = "current"
    /\ rfg' = [rfg EXCEPT !.pc = "awaitCurrent"]
    /\ chk' = [ChkIdle EXCEPT !.pc = "start", !.caller = "rfg"]
    /\ log' = Append(log, LogEntry("invoke", "checkPermissions", "rfg"))
    /\ UNCHANGED <<bridgeVars, sdkVars, evtVars, PlatformOS, PlatformVersion, granted, rbg, ens, pending,
                   result, before>>

\* return {...current, fineLocation: current.fineLocation || ..., ...}
RfgMerge ==
    /\ rfg.pc = "merge"
    /\ RfgDeliver(RfgValue)
    /\ UNCHANGED <<bridgeVars, sdkVars, evtVars, PlatformOS, PlatformVersion, granted, chk, rbg, pending,
                   log, before>>

\* the promise of return checkPermissions() resolves
RfgReturnCheck ==
    /\ rfg.pc = "returnCheck"
    /\ RfgDeliver(rfg.current)
    /\ UNCHANGED <<bridgeVars, sdkVars, evtVars, PlatformOS, PlatformVersion, granted, chk, rbg, pending,
                   log, before>>

requestForegroundPermissions ==
    \/ RfgStart
    \/ RfgRequest
    \/ RfgAnswered
    \/ RfgRejected
    \/ RfgSkip
    \/ RfgCurrent
    \/ RfgMerge
    \/ RfgReturnCheck


(***************************************************************************)
(* requestBackgroundLocation                                               *)
(***************************************************************************)
\* if (!isAndroid || SDK_INT < 29) return true;
RbgNothingToAsk == ~isAndroid \/ SDK_INT < 29

\* RbgRefuses without the API-level test: the gate closes on every level.
RbgRefuses_AnyLevel(fg) == ~fg.fineLocation

\* if (!fg.fineLocation && SDK_INT < 31) return false;
RbgRefuses(fg) == ~fg.fineLocation /\ SDK_INT < 31

\* RbgOpensSettings testing for any refusal.
RbgOpensSettings_AnyRefusal(res) == res # GRANTED

\* if (res === PermissionsAndroid.RESULTS.NEVER_ASK_AGAIN)
RbgOpensSettings(res) == res = NEVER_ASK_AGAIN

\* RbgValue testing only for NEVER_ASK_AGAIN: a plain denial counts as granted.
RbgValue_NotNever(res) == res # NEVER_ASK_AGAIN

\* return res === PermissionsAndroid.RESULTS.GRANTED;
RbgValue(res) == res = GRANTED

\* requestBackgroundLocation resolves with v.
RbgDeliver(v) ==
    /\ rbg' = RbgIdle
    /\ ens' = IF rbg.caller = "ens" THEN [ens EXCEPT !.pc = "final"] ELSE ens
    /\ result' = IF rbg.caller = "top"
                 THEN [result EXCEPT !.status = "returned", !.flag = v,
                                     !.rbg = rbg]
                 ELSE result

\* the early return, else const fg = await checkPermissions();
RbgStart ==
    /\ rbg.pc = "start"
    /\ IF RbgNothingToAsk
       THEN /\ RbgDeliver(TRUE)
            /\ UNCHANGED <<chk, log>>
       ELSE /\ rbg' = [rbg EXCEPT !.pc = "awaitFg"]
            /\ chk' = [ChkIdle EXCEPT !.pc = "start", !.caller = "rbg"]
            /\ log' = Append(log, LogEntry("invoke", "checkPermissions", "rbg"))
            /\ UNCHANGED <<ens, result>>
    /\ UNCHANGED <<bridgeVars, sdkVars, evtVars, PlatformOS, PlatformVersion, granted, rfg, pending, before>>

\* the gate, else await PermissionsAndroid.request(ACCESS_BACKGROUND_LOCATION)
RbgGate ==
    /\ rbg.pc = "gate"
    /\ pending = NoCall
    /\ IF RbgRefuses(rbg.fg)
       THEN /\ RbgDeliver(FALSE)
            /\ UNCHANGED <<pending, log>>
       ELSE /\ rbg' = [rbg EXCEPT !.pc = "request"]
            /\ pending' = LogEntry("request", ACCESS_BACKGROUND_LOCATION, "rbg")
            /\ log' = Append(log, LogEntry("request",
                                           ACCESS_BACKGROUND_LOCATION, "rbg"))
            /\ UNCHANGED <<ens, result>>
    /\ UNCHANGED <<bridgeVars, sdkVars, evtVars, PlatformOS, PlatformVersion, granted, chk, rfg, before>>

\* the user answers the dialog: const res = ...
RbgAnswered ==
    /\ rbg.pc = "request"
    /\ pending = LogEntry("request", ACCESS_BACKGROUND_LOCATION, "rbg")
    /\ \E answer \in RESULTS :
        /\ granted' = OsAfterRequest(granted, ACCESS_BACKGROUND_LOCATION, answer)
        /\ rbg' = [rbg EXCEPT !.res = answer, !.pc = "afterRequest"]
    /\ pending' = NoCall
    /\ UNCHANGED <<bridgeVars, sdkVars, evtVars, PlatformOS, PlatformVersion, chk, rfg, ens, log, result,
                   before>>

\* PermissionsAndroid.request rejects
RbgRejected ==
    /\ pending.call = "request"
    /\ pending.fn = "rbg"
    /\ Throw
    /\ UNCHANGED <<bridgeVars, sdkVars, evtVars, PlatformOS, PlatformVersion, granted, log, before>>

\* if (res === NEVER_ASK_AGAIN) await Linking.openSettings(); else the return
RbgAfterRequest ==
    /\ rbg.pc = "afterRequest"
    /\ pending = NoCall
    /\ IF RbgOpensSettings(rbg.res)
       THEN /\ rbg' = [rbg EXCEPT !.pc = "openSettings"]
            /\ pending' = LogEntry("openSettings", "none", "rbg")
            /\ log' = Append(log, LogEntry("openSettings", "none", "rbg"))
            /\ UNCHANGED <<ens, result>>
       ELSE /\ RbgDeliver(RbgValue(rbg.res))
            /\ UNCHANGED <<pending, log>>
    /\ UNCHANGED <<bridgeVars, sdkVars, evtVars, PlatformOS, PlatformVersion, granted, chk, rfg, before>>

\* Linking.openSettings resolves; return res === GRANTED
RbgSettingsOpened ==
    /\ rbg.pc = "openSettings"
    /\ pending = LogEntry("openSettings", "none", "rbg")
    /\ pending' = NoCall
    /\ RbgDeliver(RbgValue(rbg.res))
    /\ UNCHANGED <<bridgeVars, sdkVars, evtVars, PlatformOS, PlatformVersion, granted, chk, rfg, log, before>>

\* Linking.openSettings rejects
RbgSettingsRejected ==
    /\ pending.call = "openSettings"
    /\ Throw
    /\ UNCHANGED <<bridgeVars, sdkVars, evtVars, PlatformOS, PlatformVersion, granted, log, before>>

requestBackgroundLocation ==
    \/ RbgStart
    \/ RbgGate
    \/ RbgAnswered
    \/ RbgRejected
    \/ RbgAfterRequest
    \/ RbgSettingsOpened
    \/ RbgSettingsRejected

(***************************************************************************)
(* ensurePermissions(opts = { askBackground: true })                       *)
(***************************************************************************)
\* The arguments a caller passes: none, {}, {askBackground: true},
\* {askBackground: false}.
EnsureArgs == {"undefined", "{}", "{askBackground: true}",
               "{askBackground: false}"}

\* The default parameter value: it replaces an undefined argument only.
EnsOpts(arg) == IF arg = "undefined" THEN "{askBackground: true}" ELSE arg

\* EnsAskBackground with the test lost.
EnsAskBackground_Always(opts) == TRUE

\* if (opts.askBackground): a missing property reads undefined, which is falsy.
EnsAskBackground(opts) == opts = "{askBackground: true}"

\* await requestForegroundPermissions();
EnsStart ==
    /\ ens.pc = "start"
    /\ ens' = [ens EXCEPT !.pc = "awaitFg"]
    /\ rfg' = [RfgIdle EXCEPT !.pc = "start", !.caller = "ens"]
    /\ log' = Append(log, LogEntry("invoke", "requestForegroundPermissions",
                                   "ens"))
    /\ UNCHANGED <<bridgeVars, sdkVars, evtVars, PlatformOS, PlatformVersion, granted, chk, rbg, pending,
                   result, before>>

\* if (opts.askBackground) await requestBackgroundLocation();
EnsAfterFg ==
    /\ ens.pc = "afterFg"
    /\ IF EnsAskBackground(ens.opts)
       THEN /\ ens' = [ens EXCEPT !.pc = "awaitBg"]
            /\ rbg' = [RbgIdle EXCEPT !.pc = "start", !.caller = "ens"]
            /\ log' = Append(log, LogEntry("invoke",
                                           "requestBackgroundLocation", "ens"))
       ELSE /\ ens' = [ens EXCEPT !.pc = "final"]
            /\ UNCHANGED <<rbg, log>>
    /\ UNCHANGED <<bridgeVars, sdkVars, evtVars, PlatformOS, PlatformVersion, granted, chk, rfg, pending,
                   result, before>>

\* return checkPermissions();
EnsFinal ==
    /\ ens.pc = "final"
    /\ ens' = [ens EXCEPT !.pc = "awaitCheck"]
    /\ chk' = [ChkIdle EXCEPT !.pc = "start", !.caller = "ens"]
    /\ log' = Append(log, LogEntry("invoke", "checkPermissions", "ens"))
    /\ UNCHANGED <<bridgeVars, sdkVars, evtVars, PlatformOS, PlatformVersion, granted, rfg, rbg, pending,
                   result, before>>

ensurePermissions == EnsStart \/ EnsAfterFg \/ EnsFinal

(***************************************************************************)
(* The application calls one exported function at a time and awaits it.    *)
(***************************************************************************)
NoneRunning == result.status # "running"

\* What the next call can know of the call before it: a status that
\* checkPermissions has just returned.
Snapshot ==
    IF result.op = "checkPermissions" /\ result.status = "returned"
    THEN result ELSE NoResult

CallCheckPermissions ==
    /\ NoneRunning
    /\ result' = Running("checkPermissions")
    /\ chk' = [ChkIdle EXCEPT !.pc = "start", !.caller = "top"]
    /\ ens' = EnsIdle
    /\ log' = <<>>
    /\ before' = NoResult
    /\ UNCHANGED <<bridgeVars, sdkVars, evtVars, PlatformOS, PlatformVersion, granted, rfg, rbg, pending>>

CallRequestForegroundPermissions ==
    /\ NoneRunning
    /\ result' = Running("requestForegroundPermissions")
    /\ rfg' = [RfgIdle EXCEPT !.pc = "start", !.caller = "top"]
    /\ ens' = EnsIdle
    /\ log' = <<>>
    /\ before' = Snapshot
    /\ UNCHANGED <<bridgeVars, sdkVars, evtVars, PlatformOS, PlatformVersion, granted, chk, rbg, pending>>

CallRequestBackgroundLocation ==
    /\ NoneRunning
    /\ result' = Running("requestBackgroundLocation")
    /\ rbg' = [RbgIdle EXCEPT !.pc = "start", !.caller = "top"]
    /\ ens' = EnsIdle
    /\ log' = <<>>
    /\ before' = NoResult
    /\ UNCHANGED <<bridgeVars, sdkVars, evtVars, PlatformOS, PlatformVersion, granted, chk, rfg, pending>>

CallEnsurePermissions ==
    /\ NoneRunning
    /\ \E arg \in EnsureArgs :
        ens' = [pc |-> "start", arg |-> arg, opts |-> EnsOpts(arg)]
    /\ result' = Running("ensurePermissions")
    /\ log' = <<>>
    /\ before' = NoResult
    /\ UNCHANGED <<bridgeVars, sdkVars, evtVars, PlatformOS, PlatformVersion, granted, chk, rfg, rbg, pending>>

Call ==
    \/ CallCheckPermissions
    \/ CallRequestForegroundPermissions
    \/ CallRequestBackgroundLocation
    \/ CallEnsurePermissions

(***************************************************************************)
(* Specification of the permission helpers                                 *)
(***************************************************************************)
(***************************************************************************)
(* JavaScript values, as the native bridge delivers them and as the        *)
(* parsing helpers of index.tsx examine them.  A value is a record of its  *)
(* kind t and its content: the boolean b, the integer n, the characters s  *)
(* of a string, the elements a of an array, or the function o from the own *)
(* keys of an object to their values.  Numbers are the integers and the    *)
(* three non-finite values.                                                *)
(***************************************************************************)
\* The value of kind t with the content given; the slots of the other kinds
\* are empty.
Value(t, b, n, s, a, o) == [t |-> t, b |-> b, n |-> n, s |-> s, a |-> a, o |-> o]

Undefined == Value("undefined", FALSE, 0, <<>>, <<>>, <<>>)
Null == Value("null", FALSE, 0, <<>>, <<>>, <<>>)
Bool(b) == Value("boolean", b, 0, <<>>, <<>>, <<>>)
Num(n) == Value("number", FALSE, n, <<>>, <<>>, <<>>)
NaN == Value("NaN", FALSE, 0, <<>>, <<>>, <<>>)
PosInfinity == Value("Infinity", FALSE, 0, <<>>, <<>>, <<>>)
NegInfinity == Value("-Infinity", FALSE, 0, <<>>, <<>>, <<>>)
Str(s) == Value("string", FALSE, 0, s, <<>>, <<>>)
Arr(items) == Value("array", FALSE, 0, <<>>, items, <<>>)
Obj(properties) == Value("object", FALSE, 0, <<>>, <<>>, properties)

EmptyObject == Obj(<<>>)

\* No parsing helper has been called and no event emitted.
NoParseCall == [fn |-> "none", args |-> <<>>]

NoEvent == [topic |-> "none", payload |-> Undefined, threw |-> FALSE]

EvtIdle ==
    /\ parseCall = NoParseCall
    /\ parseRet = <<>>
    /\ event = NoEvent
    /\ delivered = <<>>

\* Most requestPermissions calls of the iOS bridge that are explored, and
\* most blocks waiting on the iOS main queue.
MaxRequests == 2
MaxQueued == 2

\* No bridge method has run yet.
NoBridgeCall ==
    [method |-> "none", wasScanning |-> FALSE, configuredBefore |-> FALSE,
     sdkCalls |-> <<>>, outcome |-> "none"]

NativeIdle(restored) ==
    [configured |-> FALSE, isScanning |-> restored, queue |-> <<>>,
     last |-> NoBridgeCall]

IosIdle(status, enabled) ==
    [status |-> status, servicesEnabled |-> enabled,
     permissionCompletion |-> 0, permissionManager |-> FALSE,
     requests |-> 0, invoked |-> [id \in 1..MaxRequests |-> 0],
     callback |-> FALSE]

NothingEmitted == [callback |-> "none", topic |-> "none"]

BridgeIdle ==
    /\ native = NativeIdle(FALSE)
    /\ ios = IosIdle("notDetermined", TRUE)
    /\ emitted = NothingEmitted

SdkIdle ==
    /\ sdk = NoSdkCall
    /\ nativeCalls = <<>>
    /\ nativeSettled = NotSettled
    /\ BridgeIdle

Init ==
    /\ PlatformOS \in {"android", "ios"}
    /\ PlatformVersion \in IF PlatformOS = "android" THEN SdkLevels ELSE {17}
    /\ granted \in [PERMISSIONS -> BOOLEAN]
    /\ \A p \in PERMISSIONS :
           PlatformOS = "android" /\ PlatformVersion < Introduced(p)
               => ~granted[p]
    /\ chk = ChkIdle
    /\ rfg = RfgIdle
    /\ rbg = RbgIdle
    /\ ens = EnsIdle
    /\ pending = NoCall
    /\ log = <<>>
    /\ result = NoResult
    /\ before = NoResult
    /\ SdkIdle
    /\ EvtIdle

Next ==
    \/ Call
    \/ checkPermissions
    \/ requestForegroundPermissions
    \/ requestBackgroundLocation
    \/ ensurePermissions

Spec == Init /\ [][Next]_vars

(***************************************************************************)
(* Properties of the permission helpers, checked under Spec                *)
(***************************************************************************)
IsOsCall(e) == e.call \in {"check", "request", "openSettings"}

\* The calls of PermissionsAndroid and Linking the current top-level call
\* has issued, in order.
OsCalls == SelectSeq(log, IsOsCall)

IsRequest(e) == e.call = "request"

\* The permissions requested so far, in order.
Requested == [i \in 1..Len(SelectSeq(log, IsRequest)) |->
                  SelectSeq(log, IsRequest)[i].perm]

IsOpenSettings(e) == e.call = "openSettings"

SettingsOpened == Len(SelectSeq(log, IsOpenSettings))

Invoked(function) ==
    \E i \in 1..Len(log) : log[i].call = "invoke" /\ log[i].perm = function

Returned(op) == result.op = op /\ result.status = "returned"

C2_NeverRejects == result.status # "rejected"

\* C3: a field that checkPermissions reported true immediately before a
\* requestForegroundPermissions call is true in the status that call returns.
C3_MonotonicMerge ==
    Returned("requestForegroundPermissions") /\ before.status = "returned" =>
        \A f \in Fields : before.perms[f] => result.perms[f]

\* The call returned after the Bluetooth-scan request was answered not
\* granted, the check before the call having reported btScan true.
C3_Witness ==
    /\ Returned("requestForegroundPermissions")
    /\ before.status = "returned"
    /\ isAndroid
    /\ PlatformVersion >= 31
    /\ before.perms.btScan
    /\ ~result.rfg.btScan
    /\ result.perms.btScan

\* The requests one requestForegroundPermissions call issues when the
\* fine-location request is answered granted (or not), in order.
ForegroundRequests(fineGranted) ==
    <<ACCESS_FINE_LOCATION>>
        \o (IF fineGranted THEN <<>> ELSE <<ACCESS_COARSE_LOCATION>>)
        \o (IF PlatformVersion >= 31
            THEN <<BLUETOOTH_SCAN, BLUETOOTH_CONNECT>> ELSE <<>>)
        \o (IF PlatformVersion >= 33 THEN <<POST_NOTIFICATIONS>> ELSE <<>>)

IsPrefix(s, t) == Len(s) <= Len(t) /\ s = SubSeq(t, 1, Len(s))

\* C4: on Android, the requests of one requestForegroundPermissions call are,
\* in order, fine location, coarse location iff the fine request was not
\* granted, Bluetooth scan and connect iff API >= 31, notifications iff
\* API >= 33: at every moment a prefix of that sequence (so nothing twice, and
\* never background location), the whole of it when the call returns, and a
\* request is outstanding only as the last call issued.
C4_ForegroundRequestOrder ==
    result.op = "requestForegroundPermissions" /\ PlatformOS = "android" =>
        /\ \/ IsPrefix(Requested, ForegroundRequests(TRUE))
           \/ IsPrefix(Requested, ForegroundRequests(FALSE))
        /\ pending # NoCall => log # <<>> /\ log[Len(log)] = pending
        /\ result.status = "returned" =>
               Requested = ForegroundRequests(result.rfg.fineGranted)

\* A call on API >= 33 returned after the fine-location request was not
\* granted: five requests.
C4_Witness ==
    /\ Returned("requestForegroundPermissions")
    /\ PlatformOS = "android"
    /\ PlatformVersion >= 33
    /\ ~result.rfg.fineGranted
    /\ Len(Requested) = 5

\* C5 (as claimed): on Android API 29..30, with fine location not granted,
\* requestBackgroundLocation requests nothing, does not open the settings and
\* returns false, whatever the state of coarse location.
C5_RefusesWithoutFine ==
    /\ result.op = "requestBackgroundLocation"
    /\ PlatformOS = "android"
    /\ PlatformVersion \in 29..30
    /\ ~granted[ACCESS_FINE_LOCATION]
    => /\ Requested = <<>>
       /\ SettingsOpened = 0
       /\ result.status = "returned" => result.flag = FALSE

\* C6: in requestBackgroundLocation, Linking.openSettings is called iff the
\* background-location request was answered NEVER_ASK_AGAIN, right after that
\* request and once; the call then returns false.
C6_OpenSettings ==
    result.op = "requestBackgroundLocation" =>
        /\ SettingsOpened <= 1
        /\ \A i \in 1..Len(log) :
               log[i].call = "openSettings" =>
                   /\ i > 1
                   /\ log[i - 1].call = "request"
                   /\ log[i - 1].perm = ACCESS_BACKGROUND_LOCATION
        /\ pending.call = "openSettings" => rbg.res = NEVER_ASK_AGAIN
        /\ pending.call = "request" => SettingsOpened = 0
        /\ result.status = "returned" =>
               /\ SettingsOpened = 1 <=> result.rbg.res = NEVER_ASK_AGAIN
               /\ SettingsOpened = 1 => result.flag = FALSE

\* The request was answered NEVER_ASK_AGAIN, the settings were opened and
\* the call returned false.
C6_Witness ==
    /\ Returned("requestBackgroundLocation")
    /\ result.rbg.res = NEVER_ASK_AGAIN
    /\ SettingsOpened = 1
    /\ result.flag = FALSE

\* The status a reading of the OS state gives.
StatusOf(g) ==
    [fineLocation |-> g[ACCESS_FINE_LOCATION] \/ g[ACCESS_COARSE_LOCATION],
     btScan |-> PlatformVersion >= 31 => g[BLUETOOTH_SCAN],
     btConnect |-> PlatformVersion >= 31 => g[BLUETOOTH_CONNECT],
     notifications |-> PlatformVersion >= 33 => g[POST_NOTIFICATIONS],
     backgroundLocation |->
         PlatformVersion >= 29 => g[ACCESS_BACKGROUND_LOCATION]]

\* The position in log of ensurePermissions' call of a function; 0 if none.
InvokedAt(function) ==
    IF \E i \in 1..Len(log) : log[i] = LogEntry("invoke", function, "ens")
    THEN CHOOSE i \in 1..Len(log) : log[i] = LogEntry("invoke", function, "ens")
    ELSE 0

\* C7: ensurePermissions runs requestForegroundPermissions to its end, then
\* requestBackgroundLocation iff askBackground is true (never requesting
\* background location when it is false), then checkPermissions, after which
\* nothing is requested, and returns what that checkPermissions returned.
C7_EnsureOrder ==
    result.op = "ensurePermissions" =>
        LET fgAt == InvokedAt("requestForegroundPermissions")
            bgAt == InvokedAt("requestBackgroundLocation")
            ckAt == InvokedAt("checkPermissions")
        IN  /\ \A i \in 1..Len(log) :
                   /\ log[i].fn = "rfg" => 0 < fgAt /\ fgAt < i
                   /\ log[i].fn = "rbg" => 0 < bgAt /\ bgAt < i
                   /\ (0 < bgAt /\ bgAt < i) => log[i].fn # "rfg"
                   /\ (0 < ckAt /\ ckAt < i) =>
                          /\ log[i].call = "check"
                          /\ log[i].fn = "ens"
            /\ rbg.pc # "idle" => rfg.pc = "idle"
            /\ ens.arg = "{askBackground: false}" =>
                   /\ bgAt = 0
                   /\ \A i \in 1..Len(log) :
                          log[i].perm # ACCESS_BACKGROUND_LOCATION
                              \/ log[i].call = "check"
            /\ result.status = "returned" =>
                   /\ fgAt = 1
                   /\ ckAt > 1
                   /\ ens.arg \in {"undefined", "{askBackground: true}"} =>
                          bgAt > 1
                   /\ PlatformOS = "android" => result.perms = StatusOf(granted)
                   /\ PlatformOS = "ios" => result.perms = AllTrue

\* ensurePermissions({askBackground: true}) returned on Android after the
\* background request was granted: the status it returns has
\* backgroundLocation true, which the status merged by
\* requestForegroundPermissions, computed before that grant, had not.
C7_Witness ==
    /\ Returned("ensurePermissions")
    /\ ens.arg = "{askBackground: true}"
    /\ PlatformOS = "android"
    /\ PlatformVersion >= 31
    /\ Len(Requested) >= 4
    /\ Requested[Len(Requested)] = ACCESS_BACKGROUND_LOCATION
    /\ result.perms.backgroundLocation
    /\ ~result.perms.fineLocation

\* C8 (as claimed): ensurePermissions runs requestBackgroundLocation when it
\* is called with no argument and when it is called with an options object
\* that omits askBackground.
C8_AskBackgroundDefault ==
    Returned("ensurePermissions") /\ ens.arg \in {"undefined", "{}"} =>
        Invoked("requestBackgroundLocation")

(***************************************************************************)
(* index.tsx: configure                                                    *)
(***************************************************************************)
\* Longest businessToken explored.
MaxTokenLen == 3

\* Characters String.prototype.trim removes, and one it keeps.
Whitespace == {" ", "\t"}

Chars == Whitespace \cup {"k"}

Strings == UNION {[1..n -> Chars] : n \in 0..MaxTokenLen}

\* The values a caller can leave in config.businessToken.
BusinessTokens ==
    {[type |-> "undefined", str |-> <<>>], [type |-> "null", str |-> <<>>]}
        \cup {[type |-> "string", str |-> s] : s \in Strings}

\* An optional property: omitted, or given with one of a few of its type's
\* values (the default of the property among them).
Optional(values, none) ==
    {[given |-> FALSE, v |-> none]} \cup {[given |-> TRUE, v |-> x] : x \in values}

SdkConfig ==
    [businessToken : BusinessTokens,
     foregroundScanInterval : Optional({5, 15}, 0),
     backgroundScanInterval : Optional({30, 120}, 0),
     maxQueuedPayloads : Optional({50, 100}, 0),
     enableBluetoothScanning : Optional(BOOLEAN, FALSE),
     enablePeriodicScanning : Optional(BOOLEAN, FALSE)]

RECURSIVE trimStart(_)
trimStart(s) ==
    IF s # <<>> /\ Head(s) \in Whitespace THEN trimStart(Tail(s)) ELSE s

RECURSIVE trimEnd(_)
trimEnd(s) ==
    IF s # <<>> /\ s[Len(s)] \in Whitespace
    THEN trimEnd(SubSeq(s, 1, Len(s) - 1))
    ELSE s

\* trim removing leading whitespace only.
trim_StartOnly(s) == trimStart(s)

\* String.prototype.trim
trim(s) == trimEnd(trimStart(s))

\* const { name = default } = config: the default replaces a property that
\* is undefined.
Destructure(property, default) ==
    IF property.given THEN property.v ELSE default

\* TokenRequired without the trim().length test.
TokenRequired_NoTrim(businessToken) ==
    \/ businessToken.type # "string"
    \/ businessToken.str = <<>>

\* if (!businessToken || businessToken.trim().length === 0)
TokenRequired(businessToken) ==
    \/ businessToken.type # "string"
    \/ businessToken.str = <<>>
    \/ Len(trim(businessToken.str)) = 0

\* The arguments of Native.configure(...).
NativeConfigureArgs(config) ==
    [businessToken |-> trim(config.businessToken.str),
     foregroundScanInterval |-> Destructure(config.foregroundScanInterval, 15),
     backgroundScanInterval |-> Destructure(config.backgroundScanInterval, 30),
     maxQueuedPayloads |-> Destructure(config.maxQueuedPayloads, 100),
     enableBluetoothScanning |->
         Destructure(config.enableBluetoothScanning, FALSE),
     enablePeriodicScanning |->
         Destructure(config.enablePeriodicScanning, TRUE)]

\* The errors a Native.* promise rejects with.
NativeErrors == {"SDK not configured", "Already stopped"}

\* An await with the error replaced by one of this layer's own.
Rethrown_Wrapped(e) == "Native call failed"

\* await Native.f(...) outside any try/catch, the promise rejecting with e:
\* the async function rejects with e.
Rethrown(e) == e

\* configure(config) up to its await: the validation error, or the native call
CallConfigure ==
    /\ sdk = NoSdkCall
    /\ \E config \in SdkConfig :
        IF TokenRequired(config.businessToken)
        THEN /\ sdk' = [op |-> "configure", config |-> config,
                        status |-> "rejected",
                        error |-> "Business token is required"]
             /\ nativeCalls' = <<>>
        ELSE /\ sdk' = [op |-> "configure", config |-> config,
                        status |-> "running", error |-> "none"]
             /\ nativeCalls' = <<[method |-> "configure",
                                  args |-> NativeConfigureArgs(config)]>>
    /\ nativeSettled' = NotSettled
    /\ UNCHANGED <<permVars, bridgeVars, evtVars>>

\* await Native.configure(...) resolves
NativeConfigureResolves ==
    /\ sdk.op = "configure"
    /\ sdk.status = "running"
    /\ sdk' = [sdk EXCEPT !.status = "resolved"]
    /\ nativeSettled' = [status |-> "resolved", error |-> "none"]
    /\ UNCHANGED <<nativeCalls, permVars, bridgeVars, evtVars>>

\* await Native.configure(...) rejects: configure rejects with the same error
NativeConfigureRejects ==
    /\ sdk.op = "configure"
    /\ sdk.status = "running"
    /\ \E e \in NativeErrors :
        /\ nativeSettled' = [status |-> "rejected", error |-> e]
        /\ sdk' = [sdk EXCEPT !.status = "rejected", !.error = Rethrown(e)]
    /\ UNCHANGED <<nativeCalls, permVars, bridgeVars, evtVars>>

configure == CallConfigure \/ NativeConfigureResolves \/ NativeConfigureRejects

(***************************************************************************)
(* startScanning, stopScanning                                             *)
(***************************************************************************)
ScanningOps == {"startScanning", "stopScanning"}

\* startScanning() / stopScanning() up to the await: the native call
CallScanning ==
    /\ sdk = NoSdkCall
    /\ \E op \in ScanningOps :
        /\ sdk' = [op |-> op, config |-> NoConfig, status |-> "running",
                   error |-> "none"]
        /\ nativeCalls' = <<[method |-> op, args |-> <<>>]>>
    /\ nativeSettled' = NotSettled
    /\ UNCHANGED <<permVars, bridgeVars, evtVars>>

\* await Native.startScanning() / Native.stopScanning() resolves
NativeScanningResolves ==
    /\ sdk.op \in ScanningOps
    /\ sdk.status = "running"
    /\ sdk' = [sdk EXCEPT !.status = "resolved"]
    /\ nativeSettled' = [status |-> "resolved", error |-> "none"]
    /\ UNCHANGED <<nativeCalls, permVars, bridgeVars, evtVars>>

\* the same await, the native promise rejecting
NativeScanningRejects ==
    /\ sdk.op \in ScanningOps
    /\ sdk.status = "running"
    /\ \E e \in NativeErrors :
        /\ nativeSettled' = [status |-> "rejected", error |-> e]
        /\ sdk' = [sdk EXCEPT !.status = "rejected", !.error = Rethrown(e)]
    /\ UNCHANGED <<nativeCalls, permVars, bridgeVars, evtVars>>

scanning == CallScanning \/ NativeScanningResolves \/ NativeScanningRejects

\* The application's await of the call ends; it may make its next call.
SdkAwaited ==
    /\ sdk.status \in {"resolved", "rejected"}
    /\ sdk' = NoSdkCall
    /\ nativeCalls' = <<>>
    /\ nativeSettled' = NotSettled
    /\ UNCHANGED <<permVars, bridgeVars, evtVars>>

(***************************************************************************)
(* Specification of index.tsx                                              *)
(***************************************************************************)
PermIdle ==
    /\ PlatformOS = "android"
    /\ PlatformVersion = MaxSdk
    /\ granted = [p \in PERMISSIONS |-> FALSE]
    /\ chk = ChkIdle
    /\ rfg = RfgIdle
    /\ rbg = RbgIdle
    /\ ens = EnsIdle
    /\ pending = NoCall
    /\ log = <<>>
    /\ result = NoResult
    /\ before = NoResult

InitSdk == PermIdle /\ SdkIdle /\ EvtIdle

NextSdk == configure \/ scanning \/ SdkAwaited

SpecSdk == InitSdk /\ [][NextSdk]_vars

(***************************************************************************)
(* Properties of configure, checked under SpecSdk                          *)
(***************************************************************************)
\* A businessToken that is missing, empty or made of whitespace only.
Blank(businessToken) ==
    \/ businessToken.type # "string"
    \/ \A i \in 1..Len(businessToken.str) : businessToken.str[i] \in Whitespace

\* t is s without the whitespace around it.
IsTrimmed(t, s) ==
    /\ \E i, j \in 0..Len(s) :
        /\ i + j <= Len(s)
        /\ t = SubSeq(s, i + 1, Len(s) - j)
        /\ \A k \in 1..i : s[k] \in Whitespace
        /\ \A k \in (Len(s) - j + 1)..Len(s) : s[k] \in Whitespace
    /\ t # <<>> => t[1] \notin Whitespace /\ t[Len(t)] \notin Whitespace

\* The option the caller supplied, or the property's default.
Forwarded(property, default, arg) ==
    IF property.given THEN arg = property.v ELSE arg = default

\* C9: configure with a blank businessToken is rejected with 'Business token
\* is required' and calls no method of Native.
C9_BlankTokenRejected ==
    sdk.op = "configure" /\ Blank(sdk.config.businessToken) =>
        /\ sdk.status = "rejected"
        /\ sdk.error = "Business token is required"
        /\ nativeCalls = <<>>

\* configure was called with a token of whitespace only.
C9_Witness ==
    /\ sdk.op = "configure"
    /\ sdk.config.businessToken.type = "string"
    /\ Len(sdk.config.businessToken.str) = 2
    /\ Blank(sdk.config.businessToken)
    /\ sdk.status = "rejected"

\* C10: configure with a non-blank businessToken calls Native.configure
\* once, with the trimmed token and, for each option, the value the caller
\* supplied or else its default: 15, 30, 100, false, true.
C10_NativeConfigureArgs ==
    sdk.op = "configure" /\ ~Blank(sdk.config.businessToken) =>
        /\ Len(nativeCalls) = 1
        /\ nativeCalls[1].method = "configure"
        /\ LET args == nativeCalls[1].args
               config == sdk.config
           IN  /\ IsTrimmed(args.businessToken, config.businessToken.str)
               /\ Forwarded(config.foregroundScanInterval, 15,
                            args.foregroundScanInterval)
               /\ Forwarded(config.backgroundScanInterval, 30,
                            args.backgroundScanInterval)
               /\ Forwarded(config.maxQueuedPayloads, 100,
                            args.maxQueuedPayloads)
               /\ Forwarded(config.enableBluetoothScanning, FALSE,
                            args.enableBluetoothScanning)
               /\ Forwarded(config.enablePeriodicScanning, TRUE,
                            args.enablePeriodicScanning)

\* configure resolved for a token with whitespace on both sides, one option
\* supplied with a value that is not its default and the others omitted.
C10_Witness ==
    /\ sdk.op = "configure"
    /\ sdk.status = "resolved"
    /\ sdk.config.businessToken.str = <<" ", "k", "\t">>
    /\ sdk.config.foregroundScanInterval = [given |-> TRUE, v |-> 5]
    /\ ~sdk.config.backgroundScanInterval.given
    /\ ~sdk.config.maxQueuedPayloads.given
    /\ ~sdk.config.enableBluetoothScanning.given
    /\ ~sdk.config.enablePeriodicScanning.given
    /\ nativeCalls[1].args.businessToken = <<"k">>

\* C11: when Native.startScanning or Native.stopScanning rejects, the
\* startScanning / stopScanning call rejects, with the error the native
\* promise rejected with; when it does not reject, the call does not either.
C11_NativeErrorVerbatim ==
    sdk.op \in ScanningOps =>
        /\ nativeSettled.status = "rejected" =>
               sdk.status = "rejected" /\ sdk.error = nativeSettled.error
        /\ nativeSettled.status # "rejected" => sdk.status # "rejected"
        /\ Len(nativeCalls) = 1 /\ nativeCalls[1].method = sdk.op

\* Native.stopScanning rejected with 'Already stopped'.
C11_Witness ==
    /\ sdk.op = "stopScanning"
    /\ nativeSettled = [status |-> "rejected", error |-> "Already stopped"]
    /\ sdk.status = "rejected"

\* typeof x
TypeOf(x) ==
    CASE x.t \in {"number", "NaN", "Infinity", "-Infinity"} -> "number"
      [] x.t \in {"null", "array", "object"} -> "object"
      [] OTHER -> x.t

\* ToBoolean: !x is ~Truthy(x), Boolean(x) is Truthy(x)
Truthy(x) ==
    CASE x.t \in {"undefined", "null", "NaN"} -> FALSE
      [] x.t = "boolean" -> x.b
      [] x.t = "number" -> x.n # 0
      [] x.t = "string" -> x.s # <<>>
      [] OTHER -> TRUE

\* Array.isArray
IsArray(x) == x.t = "array"

\* Number.isFinite
IsFinite(x) == x.t = "number"

\* x == null: a property read of x throws a TypeError
Nullish(x) == x.t \in {"undefined", "null"}

\* x.key, x not nullish: the own property, undefined when there is none
Member(x, key) ==
    IF x.t = "object" /\ key \in DOMAIN x.o THEN x.o[key] ELSE Undefined

\* x ?? y
Coalesce(x, y) == IF Nullish(x) THEN y ELSE x

Digits == <<"0", "1", "2", "3", "4", "5", "6", "7", "8", "9">>

IsDigit(c) == \E d \in 1..10 : Digits[d] = c

DigitValue(c) == (CHOOSE d \in 1..10 : Digits[d] = c) - 1

RECURSIVE DigitsValue(_)
DigitsValue(s) ==
    IF s = <<>> THEN 0
    ELSE 10 * DigitsValue(SubSeq(s, 1, Len(s) - 1)) + DigitValue(s[Len(s)])

InfinityLiteral == <<"I", "n", "f", "i", "n", "i", "t", "y">>

\* Number(s) of a string (StringToNumber): whitespace around the literal is
\* ignored, the empty literal is 0, a signed decimal integer or Infinity is
\* its value, anything else is NaN.
StringToNumber(s) ==
    LET literal == trim(s)
        signed == literal # <<>> /\ Head(literal) \in {"-", "+"}
        body == IF signed THEN Tail(literal) ELSE literal
        negative == signed /\ Head(literal) = "-"
    IN  IF literal = <<>> THEN Num(0)
        ELSE IF body = InfinityLiteral
        THEN IF negative THEN NegInfinity ELSE PosInfinity
        ELSE IF body # <<>> /\ \A i \in 1..Len(body) : IsDigit(body[i])
        THEN Num(IF negative THEN 0 - DigitsValue(body) ELSE DigitsValue(body))
        ELSE NaN

(***************************************************************************)
(* asMap, asNumber                                                         *)
(***************************************************************************)
\* asMap with the test lost: the event itself, cast to a record.
asMap_Unchecked(e) == e

asMap(e) ==
    IF ~Truthy(e) \/ TypeOf(e) # "object" \/ IsArray(e)
    THEN EmptyObject
    ELSE e

\* (value, fallback = 0): the default replaces an argument that is undefined.
AsNumberFallback(fallback) == IF fallback = Undefined THEN Num(0) ELSE fallback

\* asNumber without the Number.isFinite test of the parsed string.
asNumber_AnyParsed(value, fallback) ==
    IF TypeOf(value) = "number" /\ IsFinite(value) THEN value
    ELSE IF TypeOf(value) = "string" THEN StringToNumber(value.s)
    ELSE AsNumberFallback(fallback)

asNumber(value, fallback) ==
    IF TypeOf(value) = "number" /\ IsFinite(value) THEN value
    ELSE IF TypeOf(value) = "string"
    THEN LET parsed == StringToNumber(value.s)
         IN  IF IsFinite(parsed) THEN parsed ELSE AsNumberFallback(fallback)
    ELSE AsNumberFallback(fallback)

(***************************************************************************)
(* The values the helpers are applied to                                   *)
(***************************************************************************)
\* Longest string of the characters of a numeric literal that is explored.
MaxNumLen == 3

NumChars == {"4", "2", "-", " ", "x"}

NumStrings ==
    UNION {[1..n -> NumChars] : n \in 0..MaxNumLen}
        \cup {InfinityLiteral, <<"-">> \o InfinityLiteral}

FiniteNumbers == {Num(n) : n \in {0 - 65, 0, 4, 100}}

NonFinite == {NaN, PosInfinity, NegInfinity}

Primitives ==
    {Undefined, Null, Bool(TRUE), Bool(FALSE)} \cup FiniteNumbers \cup NonFinite

NumberInputs ==
    Primitives \cup {Str(s) : s \in NumStrings}
        \cup {Arr(<<>>), Arr(<<Num(4)>>), EmptyObject,
              Obj([value |-> Num(4)])}

\* The second argument of asNumber: omitted, or a finite number.
Fallbacks == {Undefined, Num(0), Num(7)}

AsNumberCalls ==
    {[fn |-> "asNumber", args |-> <<value, fallback>>] :
        value \in NumberInputs, fallback \in Fallbacks}

AsNumberReturns ==
    /\ parseCall.fn = "asNumber"
    /\ parseRet = <<>>
    /\ parseRet' = <<asNumber(parseCall.args[1], parseCall.args[2])>>
    /\ UNCHANGED <<parseCall, event, delivered, permVars, bridgeVars, sdkVars>>

(***************************************************************************)
(* String(x), toLowerCase                                                  *)
(***************************************************************************)
RECURSIVE DigitsOf(_)
DigitsOf(n) ==
    IF n < 10 THEN <<Digits[n + 1]>>
    ELSE DigitsOf(n \div 10) \o <<Digits[(n % 10) + 1]>>

\* String(x): the conversion to a string.  An array is the join of its elements
\* with "," (a null or undefined element is the empty string), any other
\* object is "[object Object]".
RECURSIVE String(_)
String(x) ==
    CASE x.t = "undefined" -> <<"u", "n", "d", "e", "f", "i", "n", "e", "d">>
      [] x.t = "null" -> <<"n", "u", "l", "l">>
      [] x.t = "boolean" ->
            IF x.b THEN <<"t", "r", "u", "e">> ELSE <<"f", "a", "l", "s", "e">>
      [] x.t = "number" ->
            IF x.n < 0 THEN <<"-">> \o DigitsOf(0 - x.n) ELSE DigitsOf(x.n)
      [] x.t = "NaN" -> <<"N", "a", "N">>
      [] x.t = "Infinity" -> InfinityLiteral
      [] x.t = "-Infinity" -> <<"-">> \o InfinityLiteral
      [] x.t = "string" -> x.s
      [] x.t = "array" ->
            LET item(i) == IF Nullish(x.a[i]) THEN <<>> ELSE String(x.a[i])
                join[i \in 0..Len(x.a)] ==
                    IF i = 0 THEN <<>>
                    ELSE IF i = 1 THEN item(1)
                    ELSE join[i - 1] \o <<",">> \o item(i)
            IN  join[Len(x.a)]
      [] x.t = "object" ->
            <<"[", "o", "b", "j", "e", "c", "t", " ",
              "O", "b", "j", "e", "c", "t", "]">>

UpperCase == <<"A", "B", "C", "D", "E", "F", "G", "H", "I", "J", "K", "L", "M",
               "N", "O", "P", "Q", "R", "S", "T", "U", "V", "W", "X", "Y", "Z">>

LowerCase == <<"a", "b", "c", "d", "e", "f", "g", "h", "i", "j", "k", "l", "m",
               "n", "o", "p", "q", "r", "s", "t", "u", "v", "w", "x", "y", "z">>

\* String.prototype.toLowerCase
toLowerCase(s) ==
    [i \in 1..Len(s) |->
        IF \E k \in 1..26 : UpperCase[k] = s[i]
        THEN LowerCase[CHOOSE k \in 1..26 : UpperCase[k] = s[i]]
        ELSE s[i]]

(***************************************************************************)
(* parseProximity, parseMetadata, parseBeacons                             *)
(***************************************************************************)
IMMEDIATE == <<"i", "m", "m", "e", "d", "i", "a", "t", "e">>
NEAR == <<"n", "e", "a", "r">>
FAR == <<"f", "a", "r">>
BT == <<"b", "t">>

UNKNOWN == <<"u", "n", "k", "n", "o", "w", "n">>

BeaconProximity == {Str(IMMEDIATE), Str(NEAR), Str(FAR), Str(BT), Str(UNKNOWN)}

\* parseProximity comparing the string as it is, without toLowerCase().
parseProximity_CaseSensitive(value) ==
    LET s == String(IF Truthy(value) THEN value ELSE Str(<<>>))
    IN  CASE s = IMMEDIATE -> Str(IMMEDIATE)
          [] s = NEAR -> Str(NEAR)
          [] s = FAR -> Str(FAR)
          [] s = BT -> Str(BT)
          [] OTHER -> Str(UNKNOWN)

\* switch (String(value || '').toLowerCase())
parseProximity(value) ==
    LET s == toLowerCase(String(IF Truthy(value) THEN value ELSE Str(<<>>)))
    IN  CASE s = IMMEDIATE -> Str(IMMEDIATE)
          [] s = NEAR -> Str(NEAR)
          [] s = FAR -> Str(FAR)
          [] s = BT -> Str(BT)
          [] OTHER -> Str(UNKNOWN)

\* IfDefined testing the value for truth instead: x ? f(x) : undefined
IfDefined_Truthy(x, fx) == IF Truthy(x) THEN fx ELSE Undefined

\* x === undefined ? undefined : f(x)
IfDefined(x, fx) == IF x = Undefined THEN Undefined ELSE fx

parseMetadata(value) ==
    IF ~Truthy(value) \/ TypeOf(value) # "object" \/ IsArray(value)
    THEN Undefined
    ELSE LET payload == value IN
         Obj([firmwareVersion |->
                  Str(String(Coalesce(Member(payload, "firmwareVersion"),
                                        Str(<<>>)))),
              batteryLevel |->
                  asNumber(Member(payload, "batteryLevel"), Undefined),
              movements |-> asNumber(Member(payload, "movements"), Undefined),
              temperature |->
                  asNumber(Member(payload, "temperature"), Undefined),
              txPower |->
                  IfDefined(Member(payload, "txPower"),
                            asNumber(Member(payload, "txPower"), Undefined)),
              rssiFromBLE |->
                  IfDefined(Member(payload, "rssiFromBLE"),
                            asNumber(Member(payload, "rssiFromBLE"),
                                     Undefined)),
              isConnectable |->
                  IfDefined(Member(payload, "isConnectable"),
                            Bool(Truthy(Member(payload, "isConnectable"))))])

\* The function parseBeacons maps over the list: (item) => { ... }
parseBeacon(item) ==
    LET beacon == asMap(item) IN
    Obj(
    [uuid |-> Str(String(Coalesce(Member(beacon, "uuid"), Str(<<>>)))),
     major |-> asNumber(Member(beacon, "major"), Undefined),
     minor |-> asNumber(Member(beacon, "minor"), Undefined),
     rssi |-> asNumber(Member(beacon, "rssi"), Undefined),
     proximity |-> parseProximity(Member(beacon, "proximity")),
     accuracy |-> asNumber(Member(beacon, "accuracy"), Undefined),
     timestamp |-> asNumber(Member(beacon, "timestamp"), Undefined),
     metadata |-> parseMetadata(Member(beacon, "metadata")),
     txPower |-> IfDefined(Member(beacon, "txPower"),
                           asNumber(Member(beacon, "txPower"), Undefined))])

\* const raw = Array.isArray(event) ? event : payload.beacons
ParseBeaconsRaw(e) ==
    IF IsArray(e) THEN e ELSE Member(asMap(e), "beacons")

\* parseBeacons treating an event that has no list as a list of that event.
parseBeacons_Wrapping(e) ==
    LET raw == ParseBeaconsRaw(e) IN
    IF ~IsArray(raw) THEN Arr(<<parseBeacon(e)>>)
    ELSE Arr([i \in 1..Len(raw.a) |-> parseBeacon(raw.a[i])])

parseBeacons(e) ==
    LET raw == ParseBeaconsRaw(e) IN
    IF ~IsArray(raw) THEN Arr(<<>>)
    ELSE Arr([i \in 1..Len(raw.a) |-> parseBeacon(raw.a[i])])

\* Whether parseBeacons(e) throws: a TypeError is thrown by the property
\* reads payload.beacons and beacon.uuid ... of a payload or beacon that is
\* null or undefined.
ParseBeaconsThrows(e) ==
    \/ ~IsArray(e) /\ Nullish(asMap(e))
    \/ /\ ~(~IsArray(e) /\ Nullish(asMap(e)))
       /\ IsArray(ParseBeaconsRaw(e))
       /\ \E i \in 1..Len(ParseBeaconsRaw(e).a) :
              Nullish(asMap(ParseBeaconsRaw(e).a[i]))

\* Longest string of the characters of a proximity name that is explored.
MaxProxLen == 2

ProxChars == {"b", "t", "B", "T", "x"}

ProximityStrings ==
    UNION {[1..n -> ProxChars] : n \in 0..MaxProxLen}
        \cup {NEAR, <<"N", "E", "A", "R">>, <<"N", "e", "a", "r">>,
              <<"n", "e", "a", "r", " ">>,
              FAR, <<"F", "A", "R">>, <<"f", "a", "R">>,
              IMMEDIATE, <<"I", "M", "M", "E", "D", "I", "A", "T", "E">>,
              <<"I", "m", "m", "e", "d", "i", "a", "t", "e">>,
              <<"i", "n", "v", "a", "l", "i", "d">>,
              UNKNOWN}

ProximityInputs ==
    Primitives \cup {Str(s) : s \in ProximityStrings}
        \cup {Arr(<<>>), Arr(<<Str(NEAR)>>), EmptyObject,
              Obj([proximity |-> Str(NEAR)])}

ParseProximityCalls ==
    {[fn |-> "parseProximity", args |-> <<value>>] : value \in ProximityInputs}

BeaconMetadataKeys ==
    {"firmwareVersion", "batteryLevel", "movements", "temperature", "txPower",
     "rssiFromBLE", "isConnectable"}

\* What a key of a metadata record holds, when the record has the key.
MetadataValues == {Null, Num(0), Bool(FALSE), Str(<<"4">>)}

MetadataRecords ==
    {Obj(properties) :
        properties \in UNION {[keys -> MetadataValues] :
                                 keys \in SUBSET BeaconMetadataKeys}}

MetadataInputs ==
    Primitives \cup MetadataRecords
        \cup {Str(<<>>), Str(<<"x">>), Arr(<<>>), Arr(<<EmptyObject>>)}

ParseMetadataCalls ==
    {[fn |-> "parseMetadata", args |-> <<value>>] : value \in MetadataInputs}

ParseProximityReturns ==
    /\ parseCall.fn = "parseProximity"
    /\ parseRet = <<>>
    /\ parseRet' = <<parseProximity(parseCall.args[1])>>
    /\ UNCHANGED <<parseCall, event, delivered, permVars, bridgeVars, sdkVars>>

ParseMetadataReturns ==
    /\ parseCall.fn = "parseMetadata"
    /\ parseRet = <<>>
    /\ parseRet' = <<parseMetadata(parseCall.args[1])>>
    /\ UNCHANGED <<parseCall, event, delivered, permVars, bridgeVars, sdkVars>>

(***************************************************************************)
(* Specification of the parsing helpers: one call of a helper, its         *)
(* argument any of the values above.                                       *)
(***************************************************************************)
InitParse ==
    /\ PermIdle
    /\ SdkIdle
    /\ parseCall \in AsNumberCalls \cup ParseProximityCalls
                        \cup ParseMetadataCalls
    /\ parseRet = <<>>
    /\ event = NoEvent
    /\ delivered = <<>>

NextParse == AsNumberReturns \/ ParseProximityReturns \/ ParseMetadataReturns

SpecParse == InitParse /\ [][NextParse]_vars

(***************************************************************************)
(* Properties of the parsing helpers, checked under SpecParse              *)
(***************************************************************************)
ReturnedFrom(fn) == parseCall.fn = fn /\ parseRet # <<>>

\* C14: asNumber returns a finite number unchanged, the number a string
\* parses to when that number is finite, and in every other case the
\* fallback, which is 0 when none is passed; what it returns is finite.
C14_AsNumber ==
    ReturnedFrom("asNumber") =>
        LET value == parseCall.args[1]
            fallback == IF parseCall.args[2] = Undefined THEN Num(0)
                        ELSE parseCall.args[2]
            ret == parseRet[1]
        IN  /\ ret.t = "number"
            /\ CASE value.t = "number" -> ret = value
                 [] value.t = "string" /\ StringToNumber(value.s).t = "number" ->
                        ret = StringToNumber(value.s)
                 [] OTHER -> ret = fallback

\* asNumber('x', 7) has returned 7.
C14_Witness ==
    /\ ReturnedFrom("asNumber")
    /\ parseCall.args = <<Str(<<"x">>), Num(7)>>
    /\ parseRet = <<Num(7)>>

\* a and b differ in the case of their letters only.
SameIgnoringCase(a, b) ==
    /\ Len(a) = Len(b)
    /\ \A i \in 1..Len(a) :
        \/ a[i] = b[i]
        \/ \E k \in 1..26 : {a[i], b[i]} = {UpperCase[k], LowerCase[k]}

ProximityNames ==
    {IMMEDIATE, NEAR, FAR, BT}

\* C15: parseProximity returns one of the five proximity values: for a
\* string that is one of immediate, near, far, bt in any letter case, that
\* value; for every other string and for a missing or other primitive
\* input, unknown.  Strings that differ in letter case only give the same
\* value.
C15_ParseProximity ==
    ReturnedFrom("parseProximity") =>
        LET value == parseCall.args[1]
            ret == parseRet[1]
        IN  /\ ret \in BeaconProximity
            /\ value.t = "string" =>
                /\ \A name \in ProximityNames :
                       SameIgnoringCase(value.s, name) => ret = Str(name)
                /\ (\A name \in ProximityNames :
                        ~SameIgnoringCase(value.s, name))
                       => ret = Str(UNKNOWN)
                /\ \A other \in ProximityStrings :
                       SameIgnoringCase(value.s, other)
                           => parseProximity(Str(other)) = ret
            /\ value \in Primitives => ret = Str(UNKNOWN)

\* parseProximity('bT') has returned bt.
C15_Witness ==
    /\ ReturnedFrom("parseProximity")
    /\ parseCall.args = <<Str(<<"b", "T">>)>>
    /\ parseRet = <<Str(BT)>>

\* C16: parseMetadata returns undefined for null, undefined, a primitive
\* or an array.  For a record it returns a record of the seven metadata
\* fields: firmwareVersion a string ('' when the record has none),
\* batteryLevel, movements and temperature the numeric coercion of the
\* record's value (0 when it has none), and txPower, rssiFromBLE,
\* isConnectable undefined exactly when the record has no such key, otherwise
\* a number, a number and a boolean.
C16_ParseMetadata ==
    ReturnedFrom("parseMetadata") =>
        LET value == parseCall.args[1]
            ret == parseRet[1]
            Has(key) == key \in DOMAIN value.o
        IN  IF value.t # "object" THEN ret = Undefined
            ELSE /\ ret.t = "object"
                 /\ DOMAIN ret.o = BeaconMetadataKeys
                 /\ ret.o.firmwareVersion.t = "string"
                 /\ ~Has("firmwareVersion") =>
                        ret.o.firmwareVersion = Str(<<>>)
                 /\ \A key \in {"batteryLevel", "movements", "temperature"} :
                        /\ ret.o[key].t = "number"
                        /\ Has(key) => ret.o[key] = asNumber(value.o[key], Num(0))
                        /\ ~Has(key) => ret.o[key] = Num(0)
                 /\ \A key \in {"txPower", "rssiFromBLE"} :
                        IF Has(key) THEN ret.o[key].t = "number"
                        ELSE ret.o[key] = Undefined
                 /\ IF Has("isConnectable")
                    THEN ret.o.isConnectable.t = "boolean"
                    ELSE ret.o.isConnectable = Undefined

\* parseMetadata has returned a record with txPower 0 and isConnectable
\* false for a record that holds these values and has no rssiFromBLE.
C16_Witness ==
    /\ ReturnedFrom("parseMetadata")
    /\ parseCall.args[1].t = "object"
    /\ DOMAIN parseCall.args[1].o = {"txPower", "isConnectable", "movements"}
    /\ parseCall.args[1].o.txPower = Num(0)
    /\ parseCall.args[1].o.isConnectable = Bool(FALSE)
    /\ parseRet[1].o.txPower = Num(0)
    /\ parseRet[1].o.isConnectable = Bool(FALSE)
    /\ parseRet[1].o.rssiFromBLE = Undefined

(***************************************************************************)
(* The handlers addBeaconsListener, addScanningListener and                *)
(* addErrorListener register with the native event emitter.  The emitter   *)
(* calls the handler of a topic with the payload of each event; the        *)
(* handler calls the application's listener.                               *)
(***************************************************************************)
EVENT_BEACONS == "bearound:beacons"
EVENT_SCANNING == "bearound:scanning"
EVENT_ERROR == "bearound:error"

\* The argument of the scanning listener, with the typeof test lost.
ScanningState_RecordOnly(e) == Bool(Truthy(Member(asMap(e), "isScanning")))

\* The argument the handler of addScanningListener passes to the listener.
ScanningState(e) ==
    IF TypeOf(e) = "boolean" THEN e
    ELSE Bool(Truthy(Member(asMap(e), "isScanning")))

UnknownError ==
    <<"U", "n", "k", "n", "o", "w", "n", " ", "e", "r", "r", "o", "r">>

\* The argument of the error listener, with the typeof test lost.
BearoundError_RecordOnly(e) ==
    Obj([message |->
             Str(String(Coalesce(Member(asMap(e), "message"),
                                 Str(UnknownError))))])

\* The argument the handler of addErrorListener passes to the listener.
BearoundError(e) ==
    IF TypeOf(e) = "string" THEN Obj([message |-> e])
    ELSE Obj([message |->
                  Str(String(Coalesce(Member(asMap(e), "message"),
                                      Str(UnknownError))))])

\* Whether the handler throws: the property read payload.isScanning or
\* payload.message of a payload that is null or undefined.
ShorthandThrows(e, shorthand) ==
    TypeOf(e) # shorthand /\ Nullish(asMap(e))

\* Most beacons in the list of an event that are explored.
MaxBeacons == 3

BeaconKeys ==
    {"uuid", "major", "minor", "rssi", "proximity", "accuracy", "timestamp",
     "metadata", "txPower"}

SampleMetadata ==
    Obj([firmwareVersion |-> Str(<<"1">>), batteryLevel |-> Num(100),
         movements |-> Num(4), temperature |-> Num(0)])

\* A well-formed beacon, as the native side sends it.
SampleBeacon(uuid) ==
    [uuid |-> Str(uuid), major |-> Num(100), minor |-> Num(4),
     rssi |-> Num(0 - 65), proximity |-> Str(<<"N", "E", "A", "R">>),
     accuracy |-> Num(4), timestamp |-> Num(100),
     metadata |-> SampleMetadata, txPower |-> Num(0)]

Without(properties, key) ==
    [k \in (DOMAIN properties) \ {key} |-> properties[k]]

\* The elements of a list of beacons: well-formed beacons, beacons that lack
\* a key or hold null or a string that is no number under it, and values
\* that are no beacon at all.
BeaconItems ==
    {Obj(SampleBeacon(<<"a">>)), Obj(SampleBeacon(<<"b">>))}
        \cup {Obj(Without(SampleBeacon(<<"a">>), key)) : key \in BeaconKeys}
        \cup {Obj([SampleBeacon(<<"b">>) EXCEPT ![key] = bad]) :
                 key \in BeaconKeys, bad \in {Null, Str(<<"x">>)}}
        \cup {Null, Bool(TRUE), Num(4), Str(<<"x">>), Arr(<<>>), EmptyObject}

\* The elements of the longer lists.
ListItems ==
    {Obj(SampleBeacon(<<"a">>)), Obj(SampleBeacon(<<"b">>)), Null, Num(4),
     EmptyObject}

\* Every list of ListItems up to MaxBeacons elements, and every list of one
\* of the BeaconItems.
BeaconLists ==
    UNION {[1..n -> ListItems] : n \in 0..MaxBeacons}
        \cup {<<item>> : item \in BeaconItems}

BeaconEvents ==
    {Arr(list) : list \in BeaconLists}
        \cup {Obj([beacons |-> Arr(list)]) : list \in BeaconLists}
        \cup Primitives
        \cup {Str(<<"x">>), EmptyObject, Obj(SampleBeacon(<<"a">>)),
              Obj([beacons |-> Null]), Obj([beacons |-> Str(<<"x">>)]),
              Obj([beacons |-> Obj(SampleBeacon(<<"a">>))]),
              Obj([items |-> Arr(<<Obj(SampleBeacon(<<"a">>))>>)])}

ShorthandValues ==
    Primitives \cup {Str(<<>>), Str(<<"x">>), Str(<<"f", "a", "l", "s", "e">>),
                     Arr(<<>>), EmptyObject}

ScanningEvents ==
    ShorthandValues
        \cup {Obj([isScanning |-> x]) : x \in ShorthandValues \ {Undefined}}
        \cup {Arr(<<Bool(TRUE)>>), Obj([scanning |-> Bool(TRUE)])}

ErrorEvents ==
    ShorthandValues
        \cup {Obj([message |-> x]) : x \in ShorthandValues \ {Undefined}}
        \cup {Arr(<<Str(<<"x">>)>>), Obj([code |-> Str(<<"x">>)])}

\* eventEmitter calls the handler of EVENT_BEACONS
OnBeacons ==
    /\ event = NoEvent
    /\ \E payload \in BeaconEvents :
        /\ event' = [topic |-> EVENT_BEACONS, payload |-> payload,
                     threw |-> ParseBeaconsThrows(payload)]
        /\ delivered' = IF ParseBeaconsThrows(payload) THEN <<>>
                        ELSE <<parseBeacons(payload)>>
    /\ UNCHANGED <<parseCall, parseRet, permVars, bridgeVars, sdkVars>>

\* eventEmitter calls the handler of EVENT_SCANNING
OnScanning ==
    /\ event = NoEvent
    /\ \E payload \in ScanningEvents :
        /\ event' = [topic |-> EVENT_SCANNING, payload |-> payload,
                     threw |-> ShorthandThrows(payload, "boolean")]
        /\ delivered' = IF ShorthandThrows(payload, "boolean") THEN <<>>
                        ELSE <<ScanningState(payload)>>
    /\ UNCHANGED <<parseCall, parseRet, permVars, bridgeVars, sdkVars>>

\* eventEmitter calls the handler of EVENT_ERROR
OnError ==
    /\ event = NoEvent
    /\ \E payload \in ErrorEvents :
        /\ event' = [topic |-> EVENT_ERROR, payload |-> payload,
                     threw |-> ShorthandThrows(payload, "string")]
        /\ delivered' = IF ShorthandThrows(payload, "string") THEN <<>>
                        ELSE <<BearoundError(payload)>>
    /\ UNCHANGED <<parseCall, parseRet, permVars, bridgeVars, sdkVars>>

EVENT_SYNC_LIFECYCLE == "bearound:syncLifecycle"
EVENT_BACKGROUND_DETECTION == "bearound:backgroundDetection"

STARTED == <<"s", "t", "a", "r", "t", "e", "d">>
COMPLETED == <<"c", "o", "m", "p", "l", "e", "t", "e", "d">>

\* The SyncLifecycleEvent the handler of addSyncLifecycleListener passes to
\* the listener; a property set to undefined is a key holding Undefined.
parseSyncLifecycleEvent(e) ==
    LET payload == asMap(e)
    IN  Obj([type |-> Str(String(Member(payload, "type"))),
             beaconCount |-> asNumber(Member(payload, "beaconCount"), Undefined),
             success |->
                 IF Member(payload, "success") = Undefined THEN Undefined
                 ELSE Bool(Truthy(Member(payload, "success"))),
             error |->
                 IF Member(payload, "error") = Undefined THEN Undefined
                 ELSE Str(String(Member(payload, "error")))])

\* The BackgroundDetectionEvent passed to the background-detection listener.
parseBackgroundDetectionEvent(e) ==
    LET payload == asMap(e)
    IN  Obj([beaconCount |->
                 asNumber(Member(payload, "beaconCount"), Undefined)])

\* The payload both native bridges build in onSyncStarted / willStartSync.
SyncStarted(beaconCount) ==
    Obj([type |-> Str(STARTED), beaconCount |-> Num(beaconCount)])

\* error?.message, error?.localizedDescription: null when there is no error.
ErrorDescription(error) == IF error = "none" THEN Null ELSE Str(<<error>>)

\* The payload both native bridges build in onSyncCompleted /
\* didCompleteSync: the error key is always put.
SyncCompleted(beaconCount, success, error) ==
    Obj([type |-> Str(COMPLETED), beaconCount |-> Num(beaconCount),
         success |-> Bool(success), error |-> ErrorDescription(error)])

\* The payload of onBeaconDetectedInBackground / didDetectBeaconInBackground.
BackgroundDetected(beaconCount) == Obj([beaconCount |-> Num(beaconCount)])

BeaconCounts == {0, 4}

SyncErrors == {"none", "x"}

\* What the native bridges emit under EVENT_SYNC_LIFECYCLE.
NativeSyncEvents ==
    {SyncStarted(n) : n \in BeaconCounts}
        \cup {SyncCompleted(n, success, error) :
                 n \in BeaconCounts, success \in BOOLEAN, error \in SyncErrors}

\* Every payload the handler may be called with: the native ones, a
\* completed event without the error key, and malformed ones.
SyncLifecycleEvents ==
    NativeSyncEvents
        \cup ShorthandValues
        \cup {Obj([type |-> Str(COMPLETED), beaconCount |-> Num(4),
                   success |-> Bool(TRUE)]),
              Obj([beaconCount |-> Num(4)]),
              Obj([type |-> Null, beaconCount |-> Null]),
              Obj([type |-> Str(<<"x">>), beaconCount |-> Str(<<"x">>)]),
              Obj([type |-> Str(STARTED), beaconCount |-> NaN]),
              Arr(<<Str(STARTED)>>)}

BackgroundDetectionEvents ==
    {BackgroundDetected(n) : n \in BeaconCounts}
        \cup ShorthandValues
        \cup {Obj([beaconCount |-> x]) : x \in ShorthandValues \ {Undefined}}

\* eventEmitter calls the handler of EVENT_SYNC_LIFECYCLE
OnSyncLifecycle ==
    /\ event = NoEvent
    /\ \E payload \in SyncLifecycleEvents :
        /\ event' = [topic |-> EVENT_SYNC_LIFECYCLE, payload |-> payload,
                     threw |-> FALSE]
        /\ delivered' = <<parseSyncLifecycleEvent(payload)>>
    /\ UNCHANGED <<parseCall, parseRet, permVars, bridgeVars, sdkVars>>

\* eventEmitter calls the handler of EVENT_BACKGROUND_DETECTION
OnBackgroundDetection ==
    /\ event = NoEvent
    /\ \E payload \in BackgroundDetectionEvents :
        /\ event' = [topic |-> EVENT_BACKGROUND_DETECTION, payload |-> payload,
                     threw |-> FALSE]
        /\ delivered' = <<parseBackgroundDetectionEvent(payload)>>
    /\ UNCHANGED <<parseCall, parseRet, permVars, bridgeVars, sdkVars>>

\* The handler has returned; the emitter may dispatch its next event.
Dispatched ==
    /\ event # NoEvent
    /\ event' = NoEvent
    /\ delivered' = <<>>
    /\ UNCHANGED <<parseCall, parseRet, permVars, bridgeVars, sdkVars>>

InitEvents == PermIdle /\ SdkIdle /\ EvtIdle

NextEvents ==
    \/ OnBeacons
    \/ OnSyncLifecycle
    \/ OnBackgroundDetection
    \/ OnScanning
    \/ OnError
    \/ Dispatched

SpecEvents == InitEvents /\ [][NextEvents]_vars

(***************************************************************************)
(* Properties of the event handlers, checked under SpecEvents              *)
(***************************************************************************)
Handled(topic) == event.topic = topic

\* C12: for every payload of a beacons event the handler does not throw and
\* calls the listener exactly once, with an array.
C12_BeaconsTotal ==
    Handled(EVENT_BEACONS) =>
        /\ ~event.threw
        /\ Len(delivered) = 1
        /\ delivered[1].t = "array"

\* The listener was called with the empty array for a beacons event whose
\* payload is null.
C12_Witness ==
    /\ Handled(EVENT_BEACONS)
    /\ event.payload = Null
    /\ delivered = <<Arr(<<>>)>>

\* The list of a beacons payload: the payload when it is a list, the value
\* of its beacons key when it is a record that holds a list there.
AcceptedList(e) ==
    IF e.t = "array" THEN <<e.a>>
    ELSE IF e.t = "object" /\ "beacons" \in DOMAIN e.o
            /\ e.o.beacons.t = "array"
    THEN <<e.o.beacons.a>>
    ELSE <<>>

\* The Beacon of an element that has none of the keys.
DefaultBeacon ==
    Obj([uuid |-> Str(<<>>), major |-> Num(0), minor |-> Num(0),
         rssi |-> Num(0), proximity |-> Str(UNKNOWN), accuracy |-> Num(0),
         timestamp |-> Num(0), metadata |-> Undefined, txPower |-> Undefined])

\* C13: for a list, bare or under the beacons key of a record, the listener
\* receives one Beacon per element, in the order of the list: the default
\* Beacon for an element that is no record, and for a record a Beacon with the
\* record's uuid and the default in every field the record has no key for.
\* For every other payload it receives the empty list.
C13_ParseBeaconsShapes ==
    Handled(EVENT_BEACONS) /\ Len(delivered) = 1 =>
        LET out == delivered[1].a
            accepted == AcceptedList(event.payload)
        IN  IF accepted = <<>> THEN out = <<>>
            ELSE LET list == accepted[1] IN
                 /\ Len(out) = Len(list)
                 /\ \A i \in 1..Len(list) :
                     /\ out[i].t = "object"
                     /\ DOMAIN out[i].o = BeaconKeys
                     /\ list[i].t # "object" => out[i] = DefaultBeacon
                     /\ list[i].t = "object" =>
                         /\ \A key \in BeaconKeys \ DOMAIN list[i].o :
                                out[i].o[key] = DefaultBeacon.o[key]
                         /\ "uuid" \in DOMAIN list[i].o
                                /\ list[i].o.uuid.t = "string"
                                => out[i].o.uuid = list[i].o.uuid

\* The listener received three Beacons for a record whose beacons key holds
\* the list of beacon b, null and beacon a: b, the default Beacon and a.
C13_Witness ==
    /\ Handled(EVENT_BEACONS)
    /\ event.payload.t = "object"
    /\ AcceptedList(event.payload) =
           <<<<Obj(SampleBeacon(<<"b">>)), Null, Obj(SampleBeacon(<<"a">>))>>>>
    /\ Len(delivered) = 1
    /\ Len(delivered[1].a) = 3
    /\ delivered[1].a[1].o.uuid = Str(<<"b">>)
    /\ delivered[1].a[2] = DefaultBeacon
    /\ delivered[1].a[3].o.uuid = Str(<<"a">>)

\* C17: for every payload of a scanning event the listener is called exactly
\* once, with a boolean: the payload itself when it is a boolean, the
\* truthiness of isScanning when it is a record, false otherwise; a boolean
\* b and the record {isScanning: b} give the same call.
C17_ScanningState ==
    Handled(EVENT_SCANNING) =>
        LET e == event.payload IN
        /\ ~event.threw
        /\ Len(delivered) = 1
        /\ delivered[1].t = "boolean"
        /\ CASE e.t = "boolean" ->
                    /\ delivered[1] = e
                    /\ ScanningState(Obj([isScanning |-> e])) = delivered[1]
             [] e.t = "object" ->
                    delivered[1].b =
                        ("isScanning" \in DOMAIN e.o /\ Truthy(e.o.isScanning))
             [] OTHER -> delivered[1] = Bool(FALSE)

\* The listener was called with true for the bare payload true.
C17_Witness ==
    /\ Handled(EVENT_SCANNING)
    /\ event.payload = Bool(TRUE)
    /\ delivered = <<Bool(TRUE)>>

\* C18 (as claimed): the error listener is called once with a record whose
\* message is a string: the payload when it is a string, String(message) when
\* it is a record that has a message key, 'Unknown error' otherwise.
C18_ErrorMessageOfAnyField ==
    Handled(EVENT_ERROR) =>
        LET e == event.payload IN
        /\ ~event.threw
        /\ Len(delivered) = 1
        /\ delivered[1].t = "object"
        /\ DOMAIN delivered[1].o = {"message"}
        /\ delivered[1].o.message.t = "string"
        /\ CASE e.t = "string" -> delivered[1].o.message = e
             [] e.t = "object" /\ "message" \in DOMAIN e.o ->
                    delivered[1].o.message = Str(String(e.o.message))
             [] OTHER -> delivered[1].o.message = Str(UnknownError)

\* C18: the error listener is called once with a record whose message is a
\* string: the payload when it is a string, String(message) when it is a
\* record whose message is not null, 'Unknown error' otherwise (a record
\* with a null message included); a string s and the record {message: s}
\* give the same call.
C18_ErrorMessage ==
    Handled(EVENT_ERROR) =>
        LET e == event.payload IN
        /\ ~event.threw
        /\ Len(delivered) = 1
        /\ delivered[1].t = "object"
        /\ DOMAIN delivered[1].o = {"message"}
        /\ delivered[1].o.message.t = "string"
        /\ CASE e.t = "string" ->
                    /\ delivered[1].o.message = e
                    /\ BearoundError(Obj([message |-> e])) = delivered[1]
             [] e.t = "object" /\ "message" \in DOMAIN e.o
                    /\ e.o.message # Null ->
                    delivered[1].o.message = Str(String(e.o.message))
             [] OTHER -> delivered[1].o.message = Str(UnknownError)

\* The listener was called with the message 'Unknown error' for a record
\* whose message is null.
C18_Witness ==
    /\ Handled(EVENT_ERROR)
    /\ event.payload = Obj([message |-> Null])
    /\ delivered = <<Obj([message |-> Str(UnknownError)])>>

(***************************************************************************)
(* Further properties of checkPermissions, checked under Spec              *)
(***************************************************************************)
\* C19: a step of checkPermissions, called by the application or by another
\* helper, leaves the OS permission state as it is, leaves no request or
\* settings call outstanding and adds nothing to the calls issued but calls
\* of PermissionsAndroid.check.
C19_CheckReadOnly ==
    [][chk.pc # "idle" =>
          /\ granted' = granted
          /\ pending' = NoCall
          /\ Len(log') >= Len(log)
          /\ \A i \in 1..Len(log') :
                 i > Len(log) => log'[i].call = "check"]_vars

\* checkPermissions, called by the application on Android 13, has returned
\* having looked up six permissions, none of them granted.
C19_Witness ==
    /\ PlatformOS = "android"
    /\ PlatformVersion = 33
    /\ Returned("checkPermissions")
    /\ Len(OsCalls) = 6
    /\ \A p \in PERMISSIONS : ~granted[p]

\* The permissions checkPermissions has looked up.
Checked == {log[i].perm : i \in {j \in 1..Len(log) : log[j].call = "check"}}

\* C20: on Android checkPermissions returns fineLocation as fine or coarse
\* location granted, and each of btScan, btConnect (API 31), notifications
\* (API 33) and backgroundLocation (API 29) as the OS state of its permission
\* from that API level on and true below it; it looks up the two location
\* permissions and the permissions of the API level, and no other.
C20_CheckValues ==
    Returned("checkPermissions") /\ PlatformOS = "android" =>
        /\ result.perms.fineLocation =
               (granted[ACCESS_FINE_LOCATION] \/ granted[ACCESS_COARSE_LOCATION])
        /\ result.perms.btScan =
               (IF PlatformVersion >= 31 THEN granted[BLUETOOTH_SCAN] ELSE TRUE)
        /\ result.perms.btConnect =
               (IF PlatformVersion >= 31 THEN granted[BLUETOOTH_CONNECT]
                ELSE TRUE)
        /\ result.perms.notifications =
               (IF PlatformVersion >= 33 THEN granted[POST_NOTIFICATIONS]
                ELSE TRUE)
        /\ result.perms.backgroundLocation =
               (IF PlatformVersion >= 29 THEN granted[ACCESS_BACKGROUND_LOCATION]
                ELSE TRUE)
        /\ Checked =
               {ACCESS_FINE_LOCATION, ACCESS_COARSE_LOCATION}
                   \cup (IF PlatformVersion >= 31
                         THEN {BLUETOOTH_SCAN, BLUETOOTH_CONNECT} ELSE {})
                   \cup (IF PlatformVersion >= 33
                         THEN {POST_NOTIFICATIONS} ELSE {})
                   \cup (IF PlatformVersion >= 29
                         THEN {ACCESS_BACKGROUND_LOCATION} ELSE {})

\* checkPermissions has returned on Android 11 with coarse location only
\* and background location granted: fineLocation, the Bluetooth fields and
\* notifications are true.
C20_Witness ==
    /\ PlatformOS = "android"
    /\ PlatformVersion = 30
    /\ Returned("checkPermissions")
    /\ ~granted[ACCESS_FINE_LOCATION]
    /\ granted[ACCESS_COARSE_LOCATION]
    /\ granted[ACCESS_BACKGROUND_LOCATION]
    /\ result.perms = AllTrue


C22_BackgroundGate ==
    result.op = "requestBackgroundLocation" /\ PlatformOS = "android" =>
        LET foreground == granted[ACCESS_FINE_LOCATION]
                              \/ granted[ACCESS_COARSE_LOCATION]
        IN  /\ PlatformVersion \in 29..30 /\ ~foreground => Requested = <<>>
            /\ result.status = "returned" /\ PlatformVersion >= 31 =>
                   Requested = <<ACCESS_BACKGROUND_LOCATION>>
            /\ result.status = "returned" /\ PlatformVersion \in 29..30
                   /\ foreground =>
                   Requested = <<ACCESS_BACKGROUND_LOCATION>>

\* On API 31 the request was made with neither fine nor coarse location
\* granted, and the call has returned.
C22_Witness ==
    /\ Returned("requestBackgroundLocation")
    /\ PlatformOS = "android"
    /\ PlatformVersion = 31
    /\ ~granted[ACCESS_FINE_LOCATION]
    /\ ~granted[ACCESS_COARSE_LOCATION]
    /\ Requested = <<ACCESS_BACKGROUND_LOCATION>>

\* C25: the status requestForegroundPermissions returns on Android has each
\* of fineLocation, btScan, btConnect, notifications true iff the
\* checkPermissions made after the requests reports it true or the request
\* was granted (fine or coarse for fineLocation; a request not made on this
\* API level counts as granted), and backgroundLocation as that check
\* reports it.  The check is the reading of the OS state as the call returns.
C25_MergeRule ==
    Returned("requestForegroundPermissions") /\ PlatformOS = "android" =>
        LET l == result.rfg
            current == l.current
        IN  /\ current = StatusOf(granted)
            /\ result.perms.fineLocation <=>
                   current.fineLocation \/ l.fineGranted \/ l.coarseGranted
            /\ result.perms.btScan <=> current.btScan \/ l.btScan
            /\ result.perms.btConnect <=> current.btConnect \/ l.btConnect
            /\ result.perms.notifications <=>
                   current.notifications \/ l.notifications
            /\ result.perms.backgroundLocation = current.backgroundLocation
            /\ PlatformVersion < 31 => l.btScan /\ l.btConnect
            /\ PlatformVersion < 33 => l.notifications
            /\ BLUETOOTH_SCAN \notin {Requested[i] : i \in 1..Len(Requested)}
                   <=> PlatformVersion < 31

\* The check after the requests reported btConnect true although the fresh
\* request was answered not granted: the field is true in the result.
C25_Witness ==
    /\ Returned("requestForegroundPermissions")
    /\ PlatformOS = "android"
    /\ PlatformVersion >= 31
    /\ ~result.rfg.btConnect
    /\ result.rfg.current.btConnect
    /\ result.perms.btConnect
    /\ ~result.perms.fineLocation


\* RNBearoundBridge.checkPermissions, the boolean the native module answers
\* on iOS: the app is authorized to use location (always or when in use).
\* On iOS the location slot of the OS state holds that authorization.
NativeCheckPermissions == granted[ACCESS_FINE_LOCATION]

\* The native module's checkPermissions has been invoked.
NativeCheckInvoked ==
    \E i \in 1..Len(nativeCalls) : nativeCalls[i].method = "checkPermissions"

\* C23 (as claimed): on iOS checkPermissions invokes the native module's
\* checkPermissions, and fineLocation, btScan, btConnect and
\* backgroundLocation of the status it returns all equal the boolean the
\* native module answers, so all are false when that boolean is false.
C23_IosNativeBoolean ==
    PlatformOS = "ios" /\ Returned("checkPermissions") =>
        /\ NativeCheckInvoked
        /\ \A f \in {"fineLocation", "btScan", "btConnect",
                     "backgroundLocation"} :
               result.perms[f] = NativeCheckPermissions


(***************************************************************************)
(* Properties of the sync-lifecycle handler, checked under SpecEvents      *)
(***************************************************************************)
\* C26 (as claimed): whatever the payload, the SyncLifecycleEvent passed to
\* the listener has type 'started' or 'completed' and a finite number as
\* beaconCount.
C26_SyncLifecycleSchema ==
    Handled(EVENT_SYNC_LIFECYCLE) =>
        /\ Len(delivered) = 1
        /\ Member(delivered[1], "type") \in {Str(STARTED), Str(COMPLETED)}
        /\ TypeOf(Member(delivered[1], "beaconCount")) = "number"
        /\ IsFinite(Member(delivered[1], "beaconCount"))

\* C28 (as claimed): for the payload the native bridges emit when a sync
\* completes with success and without error, the SyncLifecycleEvent passed
\* to the listener has error undefined.
C28_NoErrorOnSuccess ==
    /\ Handled(EVENT_SYNC_LIFECYCLE)
    /\ \E n \in BeaconCounts : event.payload = SyncCompleted(n, TRUE, "none")
    => Member(delivered[1], "error") = Undefined


(***************************************************************************)
(* The native bridges: BearoundReactSdkModule.kt on Android,               *)
(* BearoundReactSdk.mm and RNBearoundBridge.swift on iOS.  The BeAroundSDK *)
(* they drive is outside the repository and appears as the bridges use it: *)
(* stopScanning ends the scan, configure stores the configuration and      *)
(* startScanning begins a scan once configured; what startScanning does    *)
(* before any configure is the SDK's choice and is left open.              *)
(***************************************************************************)
BridgeMethods == {"configure", "startScanning", "stopScanning"}

\* sdk after one call of it that returned; st is [configured, isScanning].
SdkAfter(st, call, startsUnconfigured) ==
    CASE call = "stopScanning" -> [st EXCEPT !.isScanning = FALSE]
      [] call = "configure" -> [st EXCEPT !.configured = TRUE]
      [] call = "startScanning" ->
            [st EXCEPT !.isScanning =
                           @ \/ st.configured \/ startsUnconfigured]

RECURSIVE SdkAfterAll(_, _, _)
SdkAfterAll(st, calls, startsUnconfigured) ==
    IF calls = <<>> THEN st
    ELSE SdkAfterAll(SdkAfter(st, Head(calls), startsUnconfigured),
                     Tail(calls), startsUnconfigured)

\* RestartsAfterConfigure with the restart left out.
RestartsAfterConfigure_Never(wasScanning) == FALSE

\* if (wasScanning) { sdk.startScanning() }, after sdk.configure
RestartsAfterConfigure(wasScanning) == wasScanning

\* The calls of the SDK that configure makes, in program order.
ConfigureCalls(wasScanning) ==
    (IF wasScanning THEN <<"stopScanning">> ELSE <<>>)
        \o <<"configure">>
        \o (IF RestartsAfterConfigure(wasScanning)
            THEN <<"startScanning">> ELSE <<>>)

BridgeCalls(method, wasScanning) ==
    IF method = "configure" THEN ConfigureCalls(wasScanning) ELSE <<method>>

\* A bridge method has run its calls of the SDK; thrown is the position of
\* the call that threw, 0 if none did.
BridgeRan(method, thrown, startsUnconfigured) ==
    LET calls == BridgeCalls(method, native.isScanning)
        returned == IF thrown = 0 THEN calls ELSE SubSeq(calls, 1, thrown - 1)
        st == SdkAfterAll([configured |-> native.configured,
                           isScanning |-> native.isScanning],
                          returned, startsUnconfigured)
    IN  [native EXCEPT
            !.configured = st.configured,
            !.isScanning = st.isScanning,
            !.last = [method |-> method,
                      wasScanning |-> native.isScanning,
                      configuredBefore |-> native.configured,
                      sdkCalls |-> IF thrown = 0 THEN calls
                                   ELSE SubSeq(calls, 1, thrown),
                      outcome |-> IF thrown = 0 THEN "resolved"
                                  ELSE "rejected"]]

\* configure rejects a blank token before it touches the SDK.
BlankTokenRejected ==
    [native EXCEPT !.last = [NoBridgeCall EXCEPT !.method = "configure",
                                                 !.outcome = "rejected"]]

\* BearoundReactSdkModule: the method runs in try { } catch (t: Throwable),
\* where any call of the SDK may throw.
AndroidRuns(method) ==
    /\ PlatformOS = "android"
    /\ \E thrown \in 0..3, startsUnconfigured \in BOOLEAN :
        /\ thrown <= Len(BridgeCalls(method, native.isScanning))
        /\ native' = BridgeRan(method, thrown, startsUnconfigured)
    /\ UNCHANGED <<ios, emitted, permVars, sdkVars, evtVars>>

AndroidConfigure ==
    \/ /\ PlatformOS = "android"
       /\ native' = BlankTokenRejected
       /\ native' # native
       /\ UNCHANGED <<ios, emitted, permVars, sdkVars, evtVars>>
    \/ AndroidRuns("configure")

AndroidStartScanning == AndroidRuns("startScanning")

AndroidStopScanning == AndroidRuns("stopScanning")

\* BearoundReactSdk.mm: the method hands the work to the bridge, which
\* dispatches a block to the main queue, and resolves the promise at once.
IosDispatches(method) ==
    /\ PlatformOS = "ios"
    /\ Len(native.queue) < MaxQueued
    /\ native' = [native EXCEPT !.queue = Append(@, method)]
    /\ UNCHANGED <<ios, emitted, permVars, sdkVars, evtVars>>

IosConfigure ==
    \/ /\ PlatformOS = "ios"
       /\ native' = BlankTokenRejected
       /\ native' # native
       /\ UNCHANGED <<ios, emitted, permVars, sdkVars, evtVars>>
    \/ IosDispatches("configure")

IosStartScanning == IosDispatches("startScanning")

IosStopScanning == IosDispatches("stopScanning")

\* The main queue runs the block at its head; the Swift calls of the SDK do
\* not throw.
IosMainQueueRuns ==
    /\ PlatformOS = "ios"
    /\ native.queue # <<>>
    /\ \E startsUnconfigured \in BOOLEAN :
        native' = [BridgeRan(Head(native.queue), 0, startsUnconfigured)
                       EXCEPT !.queue = Tail(native.queue)]
    /\ UNCHANGED <<ios, emitted, permVars, sdkVars, evtVars>>

(***************************************************************************)
(* RNBearoundBridge.requestPermissions and the authorization callback      *)
(***************************************************************************)
AuthorizationStatuses ==
    {"notDetermined", "restricted", "denied", "authorizedAlways",
     "authorizedWhenInUse"}

\* completion(granted): the completion of call id is invoked once more.
Completed(id) == [ios EXCEPT !.invoked[id] = @ + 1, !.requests = id]

\* The block requestPermissions dispatches: an answer at once unless the
\* status is notDetermined, else the completion is kept in
\* permissionCompletion and the dialog is put up by a new CLLocationManager,
\* which calls its delegate as it is created.
requestPermissions ==
    /\ PlatformOS = "ios"
    /\ ios.requests < MaxRequests
    /\ LET id == ios.requests + 1
       IN  IF ~ios.servicesEnabled \/ ios.status # "notDetermined"
           THEN ios' = Completed(id)
           ELSE ios' = [ios EXCEPT !.requests = id,
                                   !.permissionCompletion = id,
                                   !.permissionManager = TRUE,
                                   !.callback = TRUE]
    /\ UNCHANGED <<native, emitted, permVars, sdkVars, evtVars>>

\* The user answers the authorization dialog; the delegate will be told.
UserAnswers ==
    /\ PlatformOS = "ios"
    /\ ios.permissionManager
    /\ ios.status = "notDetermined"
    /\ \E status \in {"denied", "authorizedAlways", "authorizedWhenInUse"} :
        ios' = [ios EXCEPT !.status = status, !.callback = TRUE]
    /\ UNCHANGED <<native, emitted, permVars, sdkVars, evtVars>>

\* locationManagerDidChangeAuthorization: guard status != .notDetermined;
\* permissionCompletion?(granted); permissionCompletion = nil
handleAuthorizationChange ==
    /\ ios.callback
    /\ IF ios.status = "notDetermined"
       THEN ios' = [ios EXCEPT !.callback = FALSE]
       ELSE ios' = [ios EXCEPT
                       !.callback = FALSE,
                       !.invoked = IF ios.permissionCompletion = 0 THEN @
                                   ELSE [@ EXCEPT
                                            ![ios.permissionCompletion] =
                                                @ + 1],
                       !.permissionCompletion = 0,
                       !.permissionManager = FALSE]
    /\ UNCHANGED <<native, emitted, permVars, sdkVars, evtVars>>

(***************************************************************************)
(* The topics the bridges emit under                                       *)
(***************************************************************************)
\* The listener callbacks of the SDK that the bridges forward.
Callbacks ==
    {"beacons", "error", "scanning", "syncStarted", "syncCompleted",
     "beaconDetectedInBackground"}

\* sendEvent(EVENT_..., payload) of BearoundReactSdkModule
AndroidTopic(callback) ==
    CASE callback = "beacons" -> "bearound:beacons"
      [] callback = "error" -> "bearound:error"
      [] callback = "scanning" -> "bearound:scanning"
      [] callback \in {"syncStarted", "syncCompleted"} ->
            "bearound:syncLifecycle"
      [] callback = "beaconDetectedInBackground" ->
            "bearound:backgroundDetection"

\* BearoundReactSdkEventEmitter.emit("...", body:) of RNBearoundBridge
IosTopic(callback) ==
    CASE callback = "beacons" -> "bearound:beacons"
      [] callback = "error" -> "bearound:error"
      [] callback = "scanning" -> "bearound:scanning"
      [] callback \in {"syncStarted", "syncCompleted"} ->
            "bearound:syncLifecycle"
      [] callback = "beaconDetectedInBackground" ->
            "bearound:backgroundDetection"

\* BearoundReactSdkEventEmitter.supportedEvents
supportedEvents ==
    {"bearound:beacons", "bearound:sync", "bearound:scanning",
     "bearound:error"}

\* The topics index.tsx adds its listeners to.
Subscribed ==
    {EVENT_BEACONS, EVENT_SYNC_LIFECYCLE, EVENT_BACKGROUND_DETECTION,
     EVENT_SCANNING, EVENT_ERROR}

AndroidEmits ==
    /\ PlatformOS = "android"
    /\ \E callback \in Callbacks :
        emitted' = [callback |-> callback, topic |-> AndroidTopic(callback)]
    /\ UNCHANGED <<native, ios, permVars, sdkVars, evtVars>>

IosEmits ==
    /\ PlatformOS = "ios"
    /\ \E callback \in Callbacks :
        emitted' = [callback |-> callback, topic |-> IosTopic(callback)]
    /\ UNCHANGED <<native, ios, permVars, sdkVars, evtVars>>

\* The process starts on either platform; the SDK may have restored the scan
\* of an earlier session.
InitBridge ==
    /\ PlatformOS \in {"android", "ios"}
    /\ PlatformVersion = IF PlatformOS = "android" THEN MaxSdk ELSE 17
    /\ granted = [p \in PERMISSIONS |-> FALSE]
    /\ chk = ChkIdle
    /\ rfg = RfgIdle
    /\ rbg = RbgIdle
    /\ ens = EnsIdle
    /\ pending = NoCall
    /\ log = <<>>
    /\ result = NoResult
    /\ before = NoResult
    /\ sdk = NoSdkCall
    /\ nativeCalls = <<>>
    /\ nativeSettled = NotSettled
    /\ EvtIdle
    /\ \E restored \in BOOLEAN : native = NativeIdle(restored)
    /\ \E status \in AuthorizationStatuses, enabled \in BOOLEAN :
        ios = IosIdle(status, enabled)
    /\ emitted = NothingEmitted

NextBridge ==
    \/ AndroidConfigure
    \/ AndroidStartScanning
    \/ AndroidStopScanning
    \/ IosConfigure
    \/ IosStartScanning
    \/ IosStopScanning
    \/ IosMainQueueRuns
    \/ requestPermissions
    \/ UserAnswers
    \/ handleAuthorizationChange
    \/ AndroidEmits
    \/ IosEmits

SpecBridge == InitBridge /\ [][NextBridge]_vars

(***************************************************************************)
(* Properties of the native bridges, checked under SpecBridge              *)
(***************************************************************************)
\* C24 (as claimed): a startScanning that runs before any configure has
\* succeeded is rejected and does not put the SDK in the scanning state.
C24_ConfigureBeforeScanning ==
    native.last.method = "startScanning" /\ ~native.last.configuredBefore =>
        /\ native.last.outcome = "rejected"
        /\ native.isScanning => native.last.wasScanning

\* C27: when configure with a valid token succeeds, the calls of the SDK it
\* made are stopScanning, configure, startScanning in that order if the SDK
\* was scanning, and configure alone if it was not; the SDK is scanning
\* afterwards iff it was scanning before.
C27_ConfigureKeepsScanning ==
    native.last.method = "configure" /\ native.last.outcome = "resolved" =>
        /\ native.last.sdkCalls =
               IF native.last.wasScanning
               THEN <<"stopScanning", "configure", "startScanning">>
               ELSE <<"configure">>
        /\ native.isScanning = native.last.wasScanning
        /\ native.configured

\* configure has succeeded on a scanning SDK, which scans again.
C27_Witness ==
    /\ native.last.method = "configure"
    /\ native.last.outcome = "resolved"
    /\ native.last.wasScanning
    /\ native.last.sdkCalls = <<"stopScanning", "configure", "startScanning">>
    /\ native.isScanning

\* C29 (as claimed): no completion of requestPermissions is invoked twice,
\* and once the authorization status is determined and the delegate has
\* been told, the completion of every call has been invoked exactly once.
C29_CompletionsOnce ==
    /\ \A id \in 1..ios.requests : ios.invoked[id] <= 1
    /\ ios.status # "notDetermined" /\ ~ios.callback =>
           \A id \in 1..ios.requests : ios.invoked[id] = 1

\* C30 (as claimed): both bridges emit every event under the topic name
\* index.tsx listens to, the five topics are all emitted, and every topic
\* the iOS bridge emits is one of the emitter's supportedEvents.
C30_TopicNames ==
    /\ \A callback \in Callbacks :
           /\ AndroidTopic(callback) \in Subscribed
           /\ IosTopic(callback) \in Subscribed
    /\ Subscribed = {AndroidTopic(callback) : callback \in Callbacks}
    /\ Subscribed = {IosTopic(callback) : callback \in Callbacks}
    /\ emitted # NothingEmitted =>
           /\ emitted.topic \in Subscribed
           /\ PlatformOS = "ios" => emitted.topic \in supportedEvents

====
